---- MODULE Spec2Model ----
(***************************************************************************)
(* redpill-vault: the approval store, the project manifest, the PreToolUse *)
(* hook's decision function (processCommand) and the secret-injecting      *)
(* executor (rv-exec).                                                     *)
(*                                                                         *)
(* Text (commands, key names, secret values, output chunks) is a sequence  *)
(* of one-character strings, so that the regular expressions, trim, split, *)
(* join and replace of the source are computed character by character.     *)
(***************************************************************************)
EXTENDS Integers, Sequences, FiniteSets, TLC

VARIABLES
    manifests,   \* the .rv.json file of each project directory (or NoFile)
    approvedFile,\* approved.json: [exists, store], store = the keys of the map
    lastOp,      \* history: the most recent approve/revoke naming each path
    hook,        \* the hook process: idle, or the decision it has just reported
    hookCalls,   \* decide calls since the last approve/revoke (capped)
    masterKeyFile, \* the master key file: [exists, content]
    vault,       \* the secret store: [exists, entries], entries = {[name, value]}
    dotenvFile,  \* the file at the --dotenv path: [exists, lines]
    ex,          \* the rv-exec process and the child it spawned
    vh,          \* a Vault object some caller holds, its last call and the call history
    settings,    \* .claude/settings.json per directory: its PreToolUse entries
    cli,         \* the rv processes the user runs: position, output, exit status
    calc,        \* a call of a pure function: its arguments and what it returned
    writers      \* two rv approve / rv revoke processes running at the same time

vars == <<manifests, approvedFile, lastOp, hook, hookCalls, masterKeyFile, vault,
          dotenvFile, ex, vh, settings, cli, calc, writers>>

envVars ==
    <<manifests, approvedFile, lastOp, masterKeyFile, vault, vh, settings, cli, calc,
      writers>>
hookVars == <<hook, hookCalls>>
execVars == <<dotenvFile, ex>>

\* ------------------------------------------------------------------ bounds

MaxHookCalls == 2

\* -------------------------------------------------------------------- text

WS == {" ", "\t", "\n"}

WordChars ==
    {"a", "b", "c", "d", "e", "f", "g", "h", "i", "j", "k", "l", "m", "n", "o",
     "p", "q", "r", "s", "t", "u", "v", "w", "x", "y", "z", "A", "B", "C", "D",
     "E", "F", "G", "H", "I", "J", "K", "L", "M", "N", "O", "P", "Q", "R", "S",
     "T", "U", "V", "W", "X", "Y", "Z", "0", "1", "2", "3", "4", "5", "6", "7",
     "8", "9", "_"}

LitPsst == <<"p", "s", "s", "t">>
LitGet == <<"g", "e", "t">>
LitExport == <<"e", "x", "p", "o", "r", "t">>
LitCat == <<"c", "a", "t">>
LitVaultDb == <<"v", "a", "u", "l", "t", ".", "d", "b">>
LitEnv == <<"e", "n", "v">>
LitPrintenv == <<"p", "r", "i", "n", "t", "e", "n", "v">>
LitSqlite == <<"s", "q", "l", "i", "t", "e">>
LitRv == <<"r", "v">>
LitApprove == <<"a", "p", "p", "r", "o", "v", "e">>
LitRevoke == <<"r", "e", "v", "o", "k", "e">>
LitGlobal == <<"-", "-", "g", "l", "o", "b", "a", "l">>
LitWrapHead == <<"r", "v", "-", "e", "x", "e", "c", " ">>
LitWrapMid == <<" ", "-", "-", " ", "b", "a", "s", "h", " ", "-", "c", " ">>

\* String.prototype.trim
RECURSIVE TrimLeft(_)
TrimLeft(s) ==
    IF s # <<>> /\ Head(s) \in WS THEN TrimLeft(Tail(s)) ELSE s

RECURSIVE TrimRight(_)
TrimRight(s) ==
    IF s # <<>> /\ s[Len(s)] \in WS THEN TrimRight(SubSeq(s, 1, Len(s) - 1)) ELSE s

Trim(s) == TrimRight(TrimLeft(s))

\* the literal p occurs in s at position i
LitAt(s, p, i) ==
    /\ i >= 1
    /\ i + Len(p) - 1 <= Len(s)
    /\ SubSeq(s, i, i + Len(p) - 1) = p

\* String.prototype.startsWith
StartsWith(s, p) == LitAt(s, p, 1)

\* \s+ matches exactly s[i..j] (j >= i)
WsRun(s, i, j) ==
    /\ i <= j
    /\ j <= Len(s)
    /\ \A k \in i..j : s[k] \in WS

IsWordAt(s, i) == i \in 1..Len(s) /\ s[i] \in WordChars

\* \b between positions i and i+1 (i = 0 is the start, i = Len(s) the end)
WordBoundary(s, i) == IsWordAt(s, i) # IsWordAt(s, i + 1)

\* /^a\s+b\b/
MatchHeadWsWord(s, a, b) ==
    /\ StartsWith(s, a)
    /\ \E j \in (Len(a) + 1)..Len(s) :
          /\ WsRun(s, Len(a) + 1, j)
          /\ LitAt(s, b, j + 1)
          /\ WordBoundary(s, j + Len(b))

\* /\bw\b.*vault\.db/ : "." does not match a line break
MatchWordThenVaultDb(s, w) ==
    \E i \in 1..Len(s) :
       /\ WordBoundary(s, i - 1)
       /\ LitAt(s, w, i)
       /\ WordBoundary(s, i + Len(w) - 1)
       /\ \E j \in (i + Len(w))..Len(s) :
             /\ LitAt(s, LitVaultDb, j)
             /\ \A k \in (i + Len(w))..(j - 1) : s[k] # "\n"

\* /^env\s*$/
MatchEnvBare(s) ==
    /\ StartsWith(s, LitEnv)
    /\ \A k \in (Len(LitEnv) + 1)..Len(s) : s[k] \in WS

\* /^env\s+-/
MatchEnvDash(s) ==
    /\ StartsWith(s, LitEnv)
    /\ \E j \in (Len(LitEnv) + 1)..Len(s) :
          /\ WsRun(s, Len(LitEnv) + 1, j)
          /\ LitAt(s, <<"-">>, j + 1)

\* /^printenv\b/
MatchPrintenv(s) ==
    /\ StartsWith(s, LitPrintenv)
    /\ WordBoundary(s, Len(LitPrintenv))

\* BLOCKED_PATTERNS, any of them
MatchesBlocked(s) ==
    \/ MatchHeadWsWord(s, LitPsst, LitGet)
    \/ MatchHeadWsWord(s, LitPsst, LitExport)
    \/ MatchWordThenVaultDb(s, LitCat)
    \/ MatchEnvBare(s)
    \/ MatchEnvDash(s)
    \/ MatchPrintenv(s)
    \/ MatchWordThenVaultDb(s, LitSqlite)
    \/ MatchWordThenVaultDb(s, LitSqlite \o <<"3">>)

\* AGENT_BLOCKED_PATTERNS, any of them
MatchesAgentBlocked(s) ==
    \/ MatchHeadWsWord(s, LitRv, LitApprove)
    \/ MatchHeadWsWord(s, LitRv, LitRevoke)

SKIP_PREFIXES == {LitWrapHead}

SafePsstWords ==
    {<<"l", "i", "s", "t">>, <<"s", "e", "t">>, <<"r", "m">>, <<"i", "n", "i", "t">>,
     <<"s", "c", "a", "n">>,
     <<"i", "n", "s", "t", "a", "l", "l", "-", "h", "o", "o", "k">>,
     <<"i", "m", "p", "o", "r", "t">>}

\* SAFE_PSST: /^psst\s+(--global\s+)?(list|set|rm|init|scan|install-hook|import)\b/
MatchesSafePsst(s) ==
    /\ StartsWith(s, LitPsst)
    /\ \E j \in (Len(LitPsst) + 1)..Len(s) :
          /\ WsRun(s, Len(LitPsst) + 1, j)
          /\ \/ \E w \in SafePsstWords :
                   LitAt(s, w, j + 1) /\ WordBoundary(s, j + Len(w))
             \/ /\ LitAt(s, LitGlobal, j + 1)
                /\ \E k \in (j + Len(LitGlobal) + 1)..Len(s) :
                      /\ WsRun(s, j + Len(LitGlobal) + 1, k)
                      /\ \E w \in SafePsstWords :
                            LitAt(s, w, k + 1) /\ WordBoundary(s, k + Len(w))

\* puts a backslash before each single quote
RECURSIVE EscapeQuotes_BackslashOnly(_)
EscapeQuotes_BackslashOnly(s) ==
    IF s = <<>> THEN <<>>
    ELSE (IF Head(s) = "'" THEN <<"\\", "'">> ELSE <<Head(s)>>)
         \o EscapeQuotes_BackslashOnly(Tail(s))

\* s.replace(/'/g, "'\\''")
RECURSIVE EscapeQuotes(_)
EscapeQuotes(s) ==
    IF s = <<>> THEN <<>>
    ELSE (IF Head(s) = "'" THEN <<"'", "\\", "'", "'">> ELSE <<Head(s)>>)
         \o EscapeQuotes(Tail(s))

\* the escaped text wrapped in single quotes
shellEscape(s) == <<"'">> \o EscapeQuotes(s) \o <<"'">>

\* Array.prototype.join
RECURSIVE Join(_, _)
Join(parts, sep) ==
    IF parts = <<>> THEN <<>>
    ELSE IF Len(parts) = 1 THEN parts[1]
    ELSE parts[1] \o sep \o Join(Tail(parts), sep)

\* ------------------------------------------------------------ file system

Undefined == "undefined"

Dirs == {"/", "/p", "/p/s", "/q"}

\* path.dirname
dirname(d) ==
    CASE d = "/p/s" -> "/p"
      [] OTHER -> "/"

\* path.basename
basename(d) ==
    CASE d = "/p/s" -> <<"s">>
      [] d = "/p" -> <<"p">>
      [] d = "/q" -> <<"q">>
      [] OTHER -> <<>>

\* directories that may hold a .rv.json
ManifestDirs == {"/p", "/q"}

\* directories in which the user runs rv approve / rv revoke
ApprovalPaths == {"/p", "/p/s", "/q"}

NoFile == [kind |-> "nofile"]

\* one secret entry of a parsed manifest; a type is "undefined", "string" or "other"
Entry(key, as) ==
    [key |-> key, isObject |-> TRUE, descType |-> "undefined",
     asType |-> IF as = <<>> THEN "undefined" ELSE "string", as |-> as,
     tagType |-> "undefined"]

\* a manifest file whose JSON parses to an object
Manifest(project, entries) ==
    [kind |-> "file", json |-> TRUE, isObject |-> TRUE, hasSecrets |-> TRUE,
     projectType |-> IF project = <<>> THEN "undefined" ELSE "string",
     project |-> project, secretsIsObject |-> TRUE, entries |-> entries]

KeyA == <<"A">>
KeyB == <<"B">>
AliasX == <<"X">>
ProjMyApp == <<"m", "y", "-", "a", "p", "p">>

\* not JSON at all
MfBadJson == [Manifest(<<>>, <<>>) EXCEPT !.json = FALSE]
\* {"secrets": {}}
MfEmpty == Manifest(<<>>, <<>>)
\* {"secrets": {"A": {}}}
MfA == Manifest(<<>>, <<Entry(KeyA, <<>>)>>)
\* {"project": "my-app", "secrets": {"A": {}, "B": {"as": "X"}}}
MfAB == Manifest(ProjMyApp, <<Entry(KeyA, <<>>), Entry(KeyB, AliasX)>>)
\* {"secrets": {"A": {"as": 1}}}
MfBadAs == Manifest(<<>>, <<[Entry(KeyA, <<>>) EXCEPT !.asType = "other"]>>)

ManifestChoices(d) ==
    IF d = "/p" THEN {NoFile, MfBadJson, MfEmpty, MfA, MfAB, MfBadAs}
    ELSE {NoFile, MfA}

\* --------------------------------------------------------- project config

\* findConfig: the manifest is looked for in cwd only
findConfig(cwd) == cwd \in ManifestDirs /\ manifests[cwd] # NoFile

TypeOk(t) == t \in {"undefined", "string"}

\* validateConfig: TRUE when it returns, FALSE when it throws
validateConfig(raw) ==
    /\ raw.isObject
    /\ raw.hasSecrets
    /\ TypeOk(raw.projectType)
    /\ raw.secretsIsObject
    /\ \A i \in 1..Len(raw.entries) :
          /\ raw.entries[i].isObject
          /\ TypeOk(raw.entries[i].descType)
          /\ TypeOk(raw.entries[i].asType)
          /\ TypeOk(raw.entries[i].tagType)

\* the RvConfig a valid manifest is returned as
ConfigOf(raw) ==
    [project |-> IF raw.projectType = "string" THEN raw.project ELSE <<>>,
     secrets |-> [i \in 1..Len(raw.entries) |->
                    [key |-> raw.entries[i].key,
                     as |-> IF raw.entries[i].asType = "string"
                            THEN raw.entries[i].as ELSE <<>>]]]

NullConfig == [project |-> <<>>, secrets |-> <<>>]

\* loadConfig: "null" (no file), "throws" (JSON.parse or validateConfig), or "ok"
loadConfig(cwd) ==
    IF ~findConfig(cwd) THEN [status |-> "null", config |-> NullConfig]
    ELSE IF ~manifests[cwd].json \/ ~validateConfig(manifests[cwd])
         THEN [status |-> "throws", config |-> NullConfig]
         ELSE [status |-> "ok", config |-> ConfigOf(manifests[cwd])]

\* getProjectName (config not null): the explicit project wins, else the basename
getProjectName(config, cwd) ==
    IF config.project # <<>> THEN config.project ELSE basename(cwd)

\* drops the renames
buildPsstArgs_KeysOnly(config) == [i \in 1..Len(config.secrets) |-> config.secrets[i].key]

\* buildPsstArgs: KEY=AS for a renamed entry, else KEY, in declaration order
buildPsstArgs(config) ==
    [i \in 1..Len(config.secrets) |->
        IF config.secrets[i].as # <<>>
        THEN config.secrets[i].key \o <<"=">> \o config.secrets[i].as
        ELSE config.secrets[i].key]

\* --------------------------------------------------------- approval store

\* loadStore: {} when the file is missing
loadStore == IF approvedFile.exists THEN approvedFile.store ELSE {}

\* saveStore: rewrite the whole file
saveStore(store) == approvedFile' = [exists |-> TRUE, store |-> store]

\* isApproved: cwd in store
isApproved(cwd) == cwd \in loadStore

\* mutant: the store is not loaded before the key is set
approveProject_NoLoad(cwd) == saveStore({cwd})

\* approveProject: load, set the key, save
approveProject(cwd) == saveStore(loadStore \cup {cwd})

\* revokeProject: load, delete the key, save
revokeProject(cwd) == saveStore(loadStore \ {cwd})

\* ------------------------------------------------- hook: processCommand

ReasonExposes == "redpill-vault: blocked - this command could expose secret values"
ReasonUserOnly == "redpill-vault: blocked - only the user may run this command"
ReasonUnknownPsst == "redpill-vault: blocked - unknown psst subcommand"
ReasonInvalidConfig == "redpill-vault: invalid .rv.json - the user must run: rv init"
ReasonNotApproved == "redpill-vault: project not approved - the user must run: rv approve"

\* HookResult: {} is Passthrough
Passthrough == [decision |-> "none", reason |-> "", hasUpdate |-> FALSE, command |-> <<>>]
Block(reason) == [decision |-> "block", reason |-> reason, hasUpdate |-> FALSE, command |-> <<>>]
Rewrite(command) == [decision |-> "none", reason |-> "", hasUpdate |-> TRUE, command |-> command]

\* findConfigDir: walk upward from start to the file system root
RECURSIVE findConfigDir(_)
findConfigDir(start) ==
    IF findConfig(start) THEN start
    ELSE IF dirname(start) = start THEN Undefined
    ELSE findConfigDir(dirname(start))

\* resolveConfig: the first candidate under which a manifest is found decides
RECURSIVE resolveConfigFrom(_, _)
resolveConfigFrom(candidates, seen) ==
    IF candidates = <<>> THEN [status |-> "null", config |-> NullConfig, root |-> Undefined]
    ELSE LET candidate == Head(candidates)
             rest == Tail(candidates)
         IN  IF candidate = Undefined \/ candidate \in seen
             THEN resolveConfigFrom(rest, seen)
             ELSE LET root == findConfigDir(candidate)
                  IN  IF root = Undefined
                      THEN resolveConfigFrom(rest, seen \cup {candidate})
                      ELSE [status |-> loadConfig(root).status,
                            config |-> loadConfig(root).config,
                            root |-> root]

resolveConfig(candidates) == resolveConfigFrom(candidates, {})

\* the hook process's environment: only PWD is set, to its working directory
HookEnv(procCwd) ==
    [CLAUDE_PROJECT_DIR |-> Undefined, CLAUDE_PROJECT_PATH |-> Undefined,
     CLAUDE_WORKSPACE_DIR |-> Undefined, CLAUDE_WORKSPACE |-> Undefined,
     PROJECT_DIR |-> Undefined, GIT_WORK_TREE |-> Undefined, PWD |-> procCwd]

Candidates(cwd, env, procCwd) ==
    <<cwd, env.CLAUDE_PROJECT_DIR, env.CLAUDE_PROJECT_PATH, env.CLAUDE_WORKSPACE_DIR,
      env.CLAUDE_WORKSPACE, env.PROJECT_DIR, env.GIT_WORK_TREE, env.PWD, procCwd>>

\* rule 1: BLOCKED_PATTERNS
HardBlocked(trimmed) == MatchesBlocked(trimmed)

\* mutant: the agent-restricted rule is missing
AgentBlocked_Never(trimmed) == FALSE

\* rule 2: AGENT_BLOCKED_PATTERNS
AgentBlocked(trimmed) == MatchesAgentBlocked(trimmed)

\* no prefix is skipped
Skipped_Never(trimmed) == FALSE

\* rule 3: already wrapped with rv-exec
Skipped(trimmed) == \E prefix \in SKIP_PREFIXES : StartsWith(trimmed, prefix)

\* mutant: any approved project approves them all
RootApproved_AnyProject(effectiveCwd) == loadStore # {}

\* mutant: an approval is honoured for one decide call only
RootApproved_Expires(effectiveCwd) == isApproved(effectiveCwd) /\ hookCalls = 0

\* the approval check of the resolved project root
RootApproved(effectiveCwd) == isApproved(effectiveCwd)

\* the wrapped command
Wrap(config, command) ==
    LitWrapHead \o Join(buildPsstArgs(config), <<" ">>) \o LitWrapMid \o shellEscape(command)

\* a manifest that cannot be loaded counts as no manifest
DecideByConfig_IgnoreInvalid(command, cwd, procCwd) ==
    LET r == resolveConfig(Candidates(cwd, HookEnv(procCwd), procCwd))
        effectiveCwd == IF r.root # Undefined THEN r.root
                        ELSE IF cwd # Undefined THEN cwd ELSE procCwd
    IN  IF r.status # "ok" \/ Len(r.config.secrets) = 0 THEN Passthrough
        ELSE IF ~RootApproved(effectiveCwd) THEN Block(ReasonNotApproved)
        ELSE Rewrite(Wrap(r.config, command))

\* the config rules of processCommand, once no command rule has matched
DecideByConfig(command, cwd, procCwd) ==
    LET r == resolveConfig(Candidates(cwd, HookEnv(procCwd), procCwd))
        effectiveCwd == IF r.root # Undefined THEN r.root
                        ELSE IF cwd # Undefined THEN cwd ELSE procCwd
    IN  IF r.status = "throws" THEN Block(ReasonInvalidConfig)
        ELSE IF r.status = "null" \/ Len(r.config.secrets) = 0 THEN Passthrough
        ELSE IF ~RootApproved(effectiveCwd) THEN Block(ReasonNotApproved)
        ELSE Rewrite(Wrap(r.config, command))

\* mutant: the skip and pass-through rules are tried before the block rules
processCommand_SkipFirst(command, cwd, procCwd) ==
    LET trimmed == Trim(command)
    IN  IF Skipped(trimmed) THEN Passthrough
        ELSE IF StartsWith(trimmed, LitRv \o <<" ">>) /\ ~AgentBlocked(trimmed)
             THEN Passthrough
        ELSE IF HardBlocked(trimmed) THEN Block(ReasonExposes)
        ELSE IF AgentBlocked(trimmed) THEN Block(ReasonUserOnly)
        ELSE IF StartsWith(trimmed, LitPsst \o <<" ">>)
             THEN (IF MatchesSafePsst(trimmed) THEN Passthrough
                   ELSE Block(ReasonUnknownPsst))
        ELSE DecideByConfig(command, cwd, procCwd)

\* processCommand: ordered rules, first match wins
processCommand(command, cwd, procCwd) ==
    LET trimmed == Trim(command)
    IN  IF HardBlocked(trimmed) THEN Block(ReasonExposes)
        ELSE IF AgentBlocked(trimmed) THEN Block(ReasonUserOnly)
        ELSE IF Skipped(trimmed) THEN Passthrough
        ELSE IF StartsWith(trimmed, LitPsst \o <<" ">>)
             THEN (IF MatchesSafePsst(trimmed) THEN Passthrough
                   ELSE Block(ReasonUnknownPsst))
        ELSE IF StartsWith(trimmed, LitRv \o <<" ">>) THEN Passthrough
        ELSE DecideByConfig(command, cwd, procCwd)

\* ------------------------------------------------ commands the agent proposes

\* 'ls -la'
CmdLs ==
    <<"l", "s", " ", "-", "l", "a">>
\* "echo 'hi'"
CmdEcho ==
    <<"e", "c", "h", "o", " ", "'", "h", "i", "'">>
\* 'echo $B'
CmdEchoB ==
    <<"e", "c", "h", "o", " ", "$", "B">>
\* 'env'
CmdEnv ==
    <<"e", "n", "v">>
\* ' env '
CmdEnvPadded ==
    <<" ", "e", "n", "v", " ">>
\* 'env -0'
CmdEnvDash ==
    <<"e", "n", "v", " ", "-", "0">>
\* 'env X=1 ls'
CmdEnvAssign ==
    <<"e", "n", "v", " ", "X", "=", "1", " ", "l", "s">>
\* 'printenv A'
CmdPrintenv ==
    <<"p", "r", "i", "n", "t", "e", "n", "v", " ", "A">>
\* 'psst get A'
CmdPsstGet ==
    <<"p", "s", "s", "t", " ", "g", "e", "t", " ", "A">>
\* 'psst  export'
CmdPsstExport ==
    <<"p", "s", "s", "t", " ", " ", "e", "x", "p", "o", "r", "t">>
\* 'psst list'
CmdPsstList ==
    <<"p", "s", "s", "t", " ", "l", "i", "s", "t">>
\* 'psst A -- ls'
CmdPsstRun ==
    <<"p", "s", "s", "t", " ", "A", " ", "-", "-", " ", "l", "s">>
\* 'cat ~/vault.db'
CmdCatVault ==
    <<"c", "a", "t", " ", "~", "/", "v", "a", "u", "l", "t", ".", "d", "b">>
\* 'sqlite3 vault.db'
CmdSqliteVault ==
    <<"s", "q", "l", "i", "t", "e", "3", " ", "v", "a", "u", "l", "t", ".", "d", "b">>
\* 'rv-exec A -- ls'
CmdExecLs ==
    <<"r", "v", "-", "e", "x", "e", "c", " ", "A", " ", "-", "-", " ", "l", "s">>
\* 'rv-exec A -- cat vault.db'
CmdExecCatVault ==
    <<"r", "v", "-", "e", "x", "e", "c", " ", "A", " ", "-", "-", " ", "c", "a", "t", " ", "v", "a", "u", "l", "t", ".", "d", "b">>
\* 'rv approve'
CmdRvApprove ==
    <<"r", "v", " ", "a", "p", "p", "r", "o", "v", "e">>
\* 'rv  revoke'
CmdRvRevoke ==
    <<"r", "v", " ", " ", "r", "e", "v", "o", "k", "e">>
\* 'rv list'
CmdRvList ==
    <<"r", "v", " ", "l", "i", "s", "t">>
\* 'rv init'
CmdRvInit ==
    <<"r", "v", " ", "i", "n", "i", "t">>
\* 'rv list; cat vault.db'
CmdRvListCatVault ==
    <<"r", "v", " ", "l", "i", "s", "t", ";", " ", "c", "a", "t", " ", "v", "a", "u", "l", "t", ".", "d", "b">>

Commands ==
    {CmdLs, CmdEcho, CmdEchoB, CmdEnv, CmdEnvPadded, CmdEnvDash, CmdEnvAssign, CmdPrintenv,
     CmdPsstGet, CmdPsstExport, CmdPsstList, CmdPsstRun, CmdCatVault, CmdSqliteVault,
     CmdExecLs, CmdExecCatVault, CmdRvApprove, CmdRvRevoke, CmdRvList, CmdRvInit,
     CmdRvListCatVault}

HookCwds == {Undefined, "/p", "/p/s", "/q"}
HookProcCwds == {"/", "/q"}

\* ------------------------------------------------------- rv-exec: helpers

OptProject == <<"-", "-", "p", "r", "o", "j", "e", "c", "t">>
OptDotenv == <<"-", "-", "d", "o", "t", "e", "n", "v">>
OptNoMask == <<"-", "-", "n", "o", "-", "m", "a", "s", "k">>
Sep == <<"-", "-">>
PSST_PASSWORD == <<"P", "S", "S", "T", "_", "P", "A", "S", "S", "W", "O", "R", "D">>
REDACTED == <<"[", "R", "E", "D", "A", "C", "T", "E", "D", "]">>

\* Array.prototype.indexOf: 0 stands for -1
IndexOf(seq, x) ==
    IF \E i \in 1..Len(seq) : seq[i] = x
    THEN CHOOSE i \in 1..Len(seq) : seq[i] = x /\ \A j \in 1..(i - 1) : seq[j] # x
    ELSE 0

\* seq without its n elements from position i on
RemoveAt(seq, i, n) == SubSeq(seq, 1, i - 1) \o SubSeq(seq, i + n, Len(seq))

LowerCase ==
    <<"a", "b", "c", "d", "e", "f", "g", "h", "i", "j", "k", "l", "m", "n", "o", "p",
      "q", "r", "s", "t", "u", "v", "w", "x", "y", "z">>

UpperCase ==
    <<"A", "B", "C", "D", "E", "F", "G", "H", "I", "J", "K", "L", "M", "N", "O", "P",
      "Q", "R", "S", "T", "U", "V", "W", "X", "Y", "Z">>

Digits == {"0", "1", "2", "3", "4", "5", "6", "7", "8", "9"}

\* String.prototype.toUpperCase, one character
UpperChar(c) == IF IndexOf(LowerCase, c) # 0 THEN UpperCase[IndexOf(LowerCase, c)] ELSE c

\* .replace(/[^A-Z0-9]/g, "_") after toUpperCase
ToIdentChars(s) ==
    [i \in 1..Len(s) |->
        IF IndexOf(UpperCase, UpperChar(s[i])) # 0 \/ UpperChar(s[i]) \in Digits
        THEN UpperChar(s[i]) ELSE "_"]

\* .replace(/_+/g, "_")
RECURSIVE CollapseUnderscores(_)
CollapseUnderscores(s) ==
    IF Len(s) < 2 THEN s
    ELSE IF s[1] = "_" /\ s[2] = "_" THEN CollapseUnderscores(Tail(s))
    ELSE <<s[1]>> \o CollapseUnderscores(Tail(s))

\* .replace(/^_|_$/g, "")
StripUnderscores(s) ==
    LET a == IF s # <<>> /\ s[1] = "_" THEN Tail(s) ELSE s
    IN  IF a # <<>> /\ a[Len(a)] = "_" THEN SubSeq(a, 1, Len(a) - 1) ELSE a

\* the ends stripped before the runs of underscores are collapsed
normalizeProjectName_StripFirst(name) == CollapseUnderscores(StripUnderscores(ToIdentChars(name)))

normalizeProjectName(name) == StripUnderscores(CollapseUnderscores(ToIdentChars(name)))

buildScopedKey(projectName, key) == normalizeProjectName(projectName) \o <<"_", "_">> \o key

\* keySpec.includes("=") ? keySpec.split("=", 2) : [keySpec, null]
SplitKeySpec(keySpec) ==
    LET i == IndexOf(keySpec, "=")
        rest == SubSeq(keySpec, i + 1, Len(keySpec))
        j == IndexOf(rest, "=")
    IN  IF i = 0 THEN [key |-> keySpec, hasAlias |-> FALSE, alias |-> <<>>]
        ELSE [key |-> SubSeq(keySpec, 1, i - 1), hasAlias |-> TRUE,
              alias |-> IF j = 0 THEN rest ELSE SubSeq(rest, 1, j - 1)]

\* text.split(secret).join(token)
RECURSIVE ReplaceAll(_, _, _)
ReplaceAll(text, secret, token) ==
    IF secret = <<>>
    THEN Join([i \in 1..Len(text) |-> <<text[i]>>], token)
    ELSE IF Len(text) < Len(secret) THEN text
    ELSE IF LitAt(text, secret, 1)
         THEN token \o ReplaceAll(SubSeq(text, Len(secret) + 1, Len(text)), secret, token)
         ELSE <<Head(text)>> \o ReplaceAll(Tail(text), secret, token)

\* masks the first secret of the list only
maskSecrets_FirstOnly(text, secrets) ==
    IF secrets = <<>> THEN text ELSE ReplaceAll(text, Head(secrets), REDACTED)

\* maskSecrets: one secret after the other, in the order of the list
RECURSIVE maskSecrets(_, _)
maskSecrets(text, secrets) ==
    IF secrets = <<>> THEN text
    ELSE maskSecrets(ReplaceAll(text, Head(secrets), REDACTED), Tail(secrets))

\* an environment is a set of [name, value] with one value per name
EnvHas(env, name) == \E e \in env : e.name = name
EnvGet(env, name) == (CHOOSE e \in env : e.name = name).value
EnvDel(env, name) == {e \in env : e.name # name}
EnvSet(env, name, value) == EnvDel(env, name) \cup {[name |-> name, value |-> value]}

\* a Map<string, string> is a sequence of [name, value] in insertion order
MapSet(map, name, value) ==
    IF \E i \in 1..Len(map) : map[i].name = name
    THEN [i \in 1..Len(map) |->
            IF map[i].name = name THEN [name |-> name, value |-> value] ELSE map[i]]
    ELSE Append(map, [name |-> name, value |-> value])

\* { ...env, ...Object.fromEntries(map) }
RECURSIVE Overlay(_, _)
Overlay(env, map) ==
    IF map = <<>> THEN env
    ELSE Overlay(EnvSet(env, Head(map).name, Head(map).value), Tail(map))

\* ------------------------------------------------------ rv-exec: the vault

VaultHas(name) == \E e \in vault.entries : e.name = name

\* Vault.getSecret of a stored name
getSecret(name) == (CHOOSE e \in vault.entries : e.name = name).value

\* the key a passphrase derives: equal keys from equal passphrases only
keyToBuffer(password) == [derivedFrom |-> password]

\* Vault.unlock: the key derived from PSST_PASSWORD, held in memory
UnlockedKey(env) == keyToBuffer(EnvGet(env, PSST_PASSWORD))

\* authenticated decryption succeeds under the key that sealed the record,
\* and only while ciphertext and nonce are as written
DecryptOk(entry, key) == entry.intact /\ entry.key = key

\* Vault.getSecret throws: the row is there and its decryption fails
getSecretThrows(name, key) ==
    \E e \in vault.entries : e.name = name /\ ~DecryptOk(e, key)

\* getVaultKeys: the names of the vault, the empty set when it cannot be opened
getVaultKeys(env) ==
    IF vault.exists /\ EnvHas(env, PSST_PASSWORD) THEN {e.name : e \in vault.entries} ELSE {}

\* ensureAuth: [ok, env], PSST_PASSWORD loaded from the master key file if unset
ensureAuth(env) ==
    IF EnvHas(env, PSST_PASSWORD) /\ EnvGet(env, PSST_PASSWORD) # <<>>
    THEN [ok |-> TRUE, env |-> env]
    ELSE IF masterKeyFile.exists /\ Trim(masterKeyFile.content) # <<>>
         THEN [ok |-> TRUE, env |-> EnvSet(env, PSST_PASSWORD, Trim(masterKeyFile.content))]
         ELSE [ok |-> FALSE, env |-> env]

\* ---------------------------------------------------- rv-exec: the script

\* an option with a value at position i (0: absent): the value, and the
\* arguments without the two
TakeOptionAt(args, i) ==
    IF i # 0 /\ i + 1 <= Len(args)
    THEN [has |-> TRUE, value |-> args[i + 1], rest |-> RemoveAt(args, i, 2)]
    ELSE [has |-> FALSE, value |-> <<>>, rest |-> args]

TakeOption(args, option) == TakeOptionAt(args, IndexOf(args, option))

\* a flag at position i (0: absent)
TakeFlagAt(args, i) ==
    IF i # 0 THEN [has |-> TRUE, rest |-> RemoveAt(args, i, 1)]
    ELSE [has |-> FALSE, rest |-> args]

TakeFlag(args, flag) == TakeFlagAt(args, IndexOf(args, flag))

\* the separator and the usage check
SplitAtSep(remaining, sepIndex) ==
    IF sepIndex = 0 \/ sepIndex = Len(remaining)
    THEN [usage |-> TRUE, keys |-> <<>>, command |-> <<>>]
    ELSE [usage |-> FALSE, keys |-> SubSeq(remaining, 1, sepIndex - 1),
          command |-> SubSeq(remaining, sepIndex + 1, Len(remaining))]

ParsedArgs(project, dotenv, noMask, split) ==
    [projectName |-> project.value, hasDotenv |-> dotenv.has, dotenvPath |-> dotenv.value,
     noMask |-> noMask.has, usage |-> split.usage, keys |-> split.keys,
     command |-> split.command]

ParseAfterNoMask(project, dotenv, noMask) ==
    ParsedArgs(project, dotenv, noMask, SplitAtSep(noMask.rest, IndexOf(noMask.rest, Sep)))

ParseAfterDotenv(project, dotenv) ==
    ParseAfterNoMask(project, dotenv, TakeFlag(dotenv.rest, OptNoMask))

ParseAfterProject(project) == ParseAfterDotenv(project, TakeOption(project.rest, OptDotenv))

\* option parsing, the separator and the usage check
ParseArgs(args) == ParseAfterProject(TakeOption(args, OptProject))

\* auto-detection of the project name: the nearest manifest that loads
RECURSIVE DetectProject(_)
DetectProject(dir) ==
    IF findConfig(dir) /\ loadConfig(dir).status = "ok"
    THEN getProjectName(loadConfig(dir).config, dir)
    ELSE IF dirname(dir) = dir THEN <<>>
    ELSE DetectProject(dirname(dir))

\* looks the bare key up before the scoped one
ResolveKey_BareFirst(keySpec, projectName, vaultKeys) ==
    LET parts == SplitKeySpec(keySpec)
        envName == IF parts.hasAlias THEN parts.alias ELSE parts.key
        projectKey == buildScopedKey(projectName, parts.key)
    IN  IF parts.key \in vaultKeys
        THEN [found |-> TRUE, vaultKey |-> parts.key, envName |-> envName]
        ELSE IF projectName # <<>> /\ projectKey \in vaultKeys
             THEN [found |-> TRUE, vaultKey |-> projectKey, envName |-> envName]
             ELSE [found |-> FALSE, vaultKey |-> <<>>, envName |-> envName]

\* one key spec: [found, vaultKey, envName]
ResolveKey(keySpec, projectName, vaultKeys) ==
    LET parts == SplitKeySpec(keySpec)
        envName == IF parts.hasAlias THEN parts.alias ELSE parts.key
        projectKey == buildScopedKey(projectName, parts.key)
    IN  IF projectName # <<>> /\ projectKey \in vaultKeys
        THEN [found |-> TRUE, vaultKey |-> projectKey, envName |-> envName]
        ELSE IF parts.key \in vaultKeys
             THEN [found |-> TRUE, vaultKey |-> parts.key, envName |-> envName]
             ELSE [found |-> FALSE, vaultKey |-> <<>>, envName |-> envName]

\* the resolution loop: [resolved, missing]
RECURSIVE ResolveKeys(_, _, _)
ResolveKeys(keys, projectName, vaultKeys) ==
    IF keys = <<>> THEN [resolved |-> <<>>, missing |-> <<>>]
    ELSE LET one == ResolveKey(Head(keys), projectName, vaultKeys)
             rest == ResolveKeys(Tail(keys), projectName, vaultKeys)
         IN  IF one.found
             THEN [resolved |-> <<[vaultKey |-> one.vaultKey, envName |-> one.envName]>>
                                \o rest.resolved,
                   missing |-> rest.missing]
             ELSE [resolved |-> rest.resolved, missing |-> <<one.envName>> \o rest.missing]

\* the secrets map: envName -> plaintext, for each resolved key in order
RECURSIVE FetchSecrets(_, _)
FetchSecrets(resolved, map) ==
    IF resolved = <<>> THEN map
    ELSE FetchSecrets(Tail(resolved),
                      IF VaultHas(Head(resolved).vaultKey)
                      THEN MapSet(map, Head(resolved).envName, getSecret(Head(resolved).vaultKey))
                      ELSE map)

\* hands the parent environment to the child as it is
ZeroPathChildEnv_Unmodified(env) == env

\* the fetch loop ends in an exception: some resolved secret fails to decrypt
FetchThrows(resolved, key) ==
    \E i \in 1..Len(resolved) : getSecretThrows(resolved[i].vaultKey, key)

\* spawn drops a variable whose value is undefined
ZeroPathChildEnv(env) == EnvDel(env, PSST_PASSWORD)

\* the child environment of the secrets path
SecretsPathChildEnv(env, secrets) == EnvDel(Overlay(env, secrets), PSST_PASSWORD)

\* the values to mask: the non-empty ones, none with --no-mask
SecretValues(secrets, noMask) ==
    IF noMask THEN <<>>
    ELSE LET vals == [i \in 1..Len(secrets) |-> secrets[i].value]
         IN  SelectSeq(vals, LAMBDA v : Len(v) > 0)

\* the dotenv lines of the secrets path
DotenvLines(secrets) ==
    [i \in 1..Len(secrets) |-> secrets[i].name \o <<"=">> \o secrets[i].value]

\* ------------------------------------------------- rv-exec: the process

MaxChunks == 1

NoExit == -1
\* the code of a child that a signal ended (null)
NullCode == -2

Executables == {<<"l", "s">>, <<"b", "a", "s", "h">>}

IdleExec ==
    [pc |-> "idle", argv |-> <<>>, cwd |-> "/", inheritedAuth |-> FALSE, password |-> <<>>,
     projectName |-> <<>>, hasDotenv |-> FALSE, noMask |-> FALSE,
     keys |-> <<>>, command |-> <<>>, resolved |-> <<>>, missing |-> <<>>,
     path |-> "none", secrets |-> <<>>, secretValues |-> <<>>,
     spawned |-> FALSE, childEnv |-> {}, stdio |-> "none", errorHandler |-> FALSE,
     child |-> "none", childCode |-> NoExit, pipe |-> <<>>, written |-> 0,
     forwarded |-> <<>>, exitCode |-> NoExit, stderr |-> {}]

\* process.exit(code) before anything was spawned
ExitEarly(base, code, messages) ==
    [base EXCEPT !.pc = "exited", !.exitCode = code, !.stderr = messages]

\* child_process.spawn: the child runs, or the spawn fails (ENOENT) and an
\* 'error' event is pending
Spawned(base, childEnv, stdio, errorHandler) ==
    [base EXCEPT !.pc = "running", !.spawned = TRUE, !.childEnv = childEnv,
                 !.stdio = stdio, !.errorHandler = errorHandler,
                 !.child = IF base.command[1] \in Executables THEN "running" ELSE "failed"]

\* the process before the script has decided anything
ExecBase(args, cwd, env0, a) ==
    [IdleExec EXCEPT !.argv = args, !.cwd = cwd,
                     !.inheritedAuth = EnvHas(env0, PSST_PASSWORD),
                     !.hasDotenv = a.hasDotenv, !.noMask = a.noMask,
                     !.keys = a.keys, !.command = a.command]

\* the explicit project name, else the auto-detected one
ProjectNameOf(a, cwd) == IF a.projectName # <<>> THEN a.projectName ELSE DetectProject(cwd)

\* the secrets path: dotenv, child environment, masked pipes
ExecWithSecrets(resolvedBase, a, auth, secrets) ==
    Spawned([resolvedBase EXCEPT !.path = "secrets", !.secrets = secrets,
                                 !.secretValues = SecretValues(secrets, a.noMask)],
            SecretsPathChildEnv(auth.env, secrets),
            IF a.noMask THEN "inherit" ELSE "pipe", TRUE)

\* getSecret throws inside the async function, nothing catches it: the
\* rejection is unhandled, the runtime prints the error as raised and the
\* process ends with status 1 before any dotenv file or child exists
FetchRejected(resolvedBase) ==
    [resolvedBase EXCEPT !.pc = "exited", !.path = "secrets", !.exitCode = 1,
                         !.stderr = @ \cup {"unhandled rejection: decryption error"}]

\* the two lines written to stderr when some key is missing
MissingReport(missing) ==
    IF missing # <<>>
    THEN {"missing secrets (skipped)", "Fix with: rv import .env  or  rv set KEY_NAME"}
    ELSE {}

\* the resolution loop's results, and what was reported
WithResolution(base, projectName, r) ==
    [base EXCEPT !.projectName = projectName, !.resolved = r.resolved,
                 !.missing = r.missing, !.stderr = MissingReport(r.missing)]

\* one of the two spawn paths, or the failed fetch
SpawnPaths(resolvedBase, a, auth, r) ==
    IF r.resolved = <<>>
    THEN Spawned([resolvedBase EXCEPT !.path = "zero"],
                 ZeroPathChildEnv(auth.env), "inherit", FALSE)
    ELSE IF FetchThrows(r.resolved, UnlockedKey(auth.env))
         THEN FetchRejected(resolvedBase)
    ELSE ExecWithSecrets(resolvedBase, a, auth, FetchSecrets(r.resolved, <<>>))

\* stops with status 1 when a key is missing
ExecResolved_MissingFatal(base, a, auth, projectName, r) ==
    IF r.missing # <<>>
    THEN ExitEarly(WithResolution(base, projectName, r), 1, MissingReport(r.missing))
    ELSE SpawnPaths(WithResolution(base, projectName, r), a, auth, r)

\* after the resolution loop: the report of missing keys, then one of the two
\* spawn paths
ExecResolved(base, a, auth, projectName, r) ==
    SpawnPaths(WithResolution(base, projectName, r), a, auth, r)

\* authentication, the vault, the resolution loop
ExecAuthed(base, a, auth, projectName) ==
    IF ~auth.ok
    THEN ExitEarly(base, 1, {IF ~masterKeyFile.exists THEN "no master key" ELSE "auth failed"})
    ELSE IF ~vault.exists THEN ExitEarly(base, 1, {"open failed"})
    ELSE ExecResolved([base EXCEPT !.password = EnvGet(auth.env, PSST_PASSWORD)],
                      a, auth, projectName,
                      ResolveKeys(a.keys, projectName, getVaultKeys(auth.env)))

ExecParsed(base, a, cwd, env0) ==
    IF a.usage THEN ExitEarly(base, 1, {"usage"})
    ELSE IF a.keys = <<>> THEN ExitEarly(base, 1, {"no keys"})
    ELSE ExecAuthed(base, a, ensureAuth(env0), ProjectNameOf(a, cwd))

\* the script from its first line to the return of spawn
ExecWith(args, cwd, env0, a) == ExecParsed(ExecBase(args, cwd, env0, a), a, cwd, env0)

ExecMain(args, cwd, env0) == ExecWith(args, cwd, env0, ParseArgs(args))

\* what writeFileSync(dotenvPath, ...) leaves on disk once ExecMain has run
DotenvWritten(r) ==
    IF r.spawned /\ r.hasDotenv
    THEN [exists |-> TRUE,
          lines |-> IF r.path = "zero" THEN <<>> ELSE DotenvLines(r.secrets)]
    ELSE dotenvFile

\* try { unlinkSync(dotenvPath) } catch {}
Unlinked == [exists |-> FALSE, lines |-> <<>>]

\* the 'exit' handler's status: code ?? 1 without secrets, code ?? 0 with them
ExitStatus(path, code) ==
    IF code # NullCode THEN code
    ELSE IF path = "zero" THEN 1 ELSE 0

\* the data handlers of stdout and stderr
OnData(data, secretValues) == maskSecrets(data, secretValues)

\* ----------------------------------------------------- inputs of rv-exec

\* rv-exec A -- ls
ArgvA ==
    <<<<"A">>,
      Sep,
      <<"l", "s">>>>
\* rv-exec --project my-app A B=X -- ls
ArgvProjectAB ==
    <<OptProject,
      <<"m", "y", "-", "a", "p", "p">>,
      <<"A">>,
      <<"B", "=", "X">>,
      Sep,
      <<"l", "s">>>>
\* rv-exec --dotenv .env A -- ls
ArgvDotenvA ==
    <<OptDotenv,
      <<".", "e", "n", "v">>,
      <<"A">>,
      Sep,
      <<"l", "s">>>>
\* rv-exec --dotenv .env A B=X -- nosuchcmd
ArgvDotenvAB ==
    <<OptDotenv,
      <<".", "e", "n", "v">>,
      <<"A">>,
      <<"B", "=", "X">>,
      Sep,
      <<"n", "o", "s", "u", "c", "h", "c", "m", "d">>>>
\* rv-exec --no-mask A -- ls
ArgvNoMaskA ==
    <<OptNoMask,
      <<"A">>,
      Sep,
      <<"l", "s">>>>
\* rv-exec B -- nosuchcmd
ArgvBadCmd ==
    <<<<"B">>,
      Sep,
      <<"n", "o", "s", "u", "c", "h", "c", "m", "d">>>>
\* rv-exec A ls
ArgvNoSep ==
    <<<<"A">>,
      <<"l", "s">>>>
\* rv-exec -- ls
ArgvNoKeys ==
    <<Sep,
      <<"l", "s">>>>
\* rv-exec A --
ArgvNoCommand ==
    <<<<"A">>,
      Sep>>
\* rv-exec --all -- ls
WordAll == <<"-", "-", "a", "l", "l">>
ArgvAll ==
    <<WordAll,
      Sep,
      <<"l", "s">>>>
\* rv-exec A -- ls --no-mask
ArgvFlagAfterSep ==
    <<<<"A">>,
      Sep,
      <<"l", "s">>,
      OptNoMask>>
ArgvSamples ==
    {ArgvA, ArgvProjectAB, ArgvDotenvA, ArgvDotenvAB, ArgvNoMaskA, ArgvBadCmd, ArgvNoSep, ArgvNoKeys,
     ArgvNoCommand, ArgvAll, ArgvFlagAfterSep}

ExecCwds == {"/p/s", "/q"}

\* the environment rv-exec inherits, with or without the store password
BaseEnv == {[name |-> <<"H", "O", "M", "E">>, value |-> <<"/", "h">>]}
InheritedEnvs ==
    {BaseEnv,
     EnvSet(BaseEnv, PSST_PASSWORD, <<"p", "w">>),
     EnvSet(BaseEnv, PSST_PASSWORD, <<"m", "k">>)}

NameMyAppA == <<"M", "Y", "_", "A", "P", "P", "_", "_", "A">>
NamePA == <<"P", "_", "_", "A">>
ValA == <<"s", "A">>
ValMyAppA == <<"s", "M">>
ValPA == <<"s", "P">>

\* where the global vault is: ~/.psst (vault.db right in it), the default
\* environment below it, or nowhere
NoPath == "none"
HomePsst == "~/.psst"
HomePsstDefaultEnv == "~/.psst/envs/default"

\* the passphrase rv init wrote to the master key file
MasterPassword == <<"m", "k">>

\* a record as stored: sealed under the key of a passphrase, and intact until
\* its ciphertext or nonce is changed on disk
SealedEntry(name, value, password, intact) ==
    [name |-> name, value |-> value, key |-> keyToBuffer(password), intact |-> intact]

VaultEntry(name, value) == SealedEntry(name, value, MasterPassword, TRUE)

\* the vaults rv-exec is run against
VaultChoices ==
    {[exists |-> FALSE, path |-> NoPath, entries |-> {}],
     [exists |-> TRUE, path |-> HomePsst, entries |-> {}],
     [exists |-> TRUE, path |-> HomePsst, entries |-> {VaultEntry(KeyA, ValA)}],
     [exists |-> TRUE, path |-> HomePsst, entries |-> {VaultEntry(KeyA, ValA), VaultEntry(NameMyAppA, ValMyAppA),
                                    VaultEntry(KeyB, <<>>)}],
     [exists |-> TRUE, path |-> HomePsst, entries |-> {VaultEntry(NameMyAppA, ValMyAppA)}],
     [exists |-> TRUE, path |-> HomePsst, entries |-> {VaultEntry(NamePA, ValPA), VaultEntry(KeyA, ValA)}],
     [exists |-> TRUE, path |-> HomePsst, entries |-> {SealedEntry(KeyA, ValA, MasterPassword, FALSE),
                                    VaultEntry(KeyB, ValA)}]}

MasterKeyChoices ==
    {[exists |-> FALSE, content |-> <<>>],
     [exists |-> TRUE, content |-> <<"\n">>],
     [exists |-> TRUE, content |-> <<"m", "k", "\n">>]}

\* what the child prints
SampleChunks == {<<"o", "k">>, <<"k", "=", "s", "A", "!">>}
Streams == {"stdout", "stderr"}
ChildCodes == {0, 3, NullCode}

\* ---------------------------------------------------------------- actions

\* no concurrent rv approve / rv revoke
NoWriters == [pc |-> "none"]

\* no call of a pure function is being looked at
NoCalc == [pc |-> "none"]

\* ---- the hook process: main

\* a JSON value as far as main looks into it
JsonUndefined == [type |-> "undefined", text |-> <<>>]
JsonString(text) == [type |-> "string", text |-> text]
JsonNumber == [type |-> "number", text |-> <<"5">>]

\* what arrives on stdin: blank, text JSON.parse rejects, or a JSON value:
\* null, a number, or an object with the members main reads
StdinBlank == [kind |-> "blank", tool_name |-> JsonUndefined, hasToolInput |-> FALSE,
               command |-> JsonUndefined]
StdinNotJson == [StdinBlank EXCEPT !.kind = "notjson"]
StdinNull == [StdinBlank EXCEPT !.kind = "null"]
StdinNumber == [StdinBlank EXCEPT !.kind = "number"]
StdinObject(tool_name, hasToolInput, command) ==
    [kind |-> "object", tool_name |-> tool_name, hasToolInput |-> hasToolInput,
     command |-> command]

LitBash == <<"B", "a", "s", "h">>
LitRead == <<"R", "e", "a", "d">>

BashInput(command) == StdinObject(JsonString(LitBash), TRUE, JsonString(command))

\* !x for the JSON values above: undefined and the empty string are falsy
Falsy(v) == v.type = "undefined" \/ (v.type = "string" /\ v.text = <<>>)

\* main up to the call of processCommand: process.exit(0) on blank input,
\* return when the text is not JSON or the call is not a Bash command, a
\* TypeError when a member of null is read or a command that is not a string
\* is trimmed
BeforeDecision(stdin) ==
    IF stdin.kind = "blank" THEN "exit"
    ELSE IF stdin.kind = "notjson" THEN "return"
    ELSE IF stdin.kind = "null" THEN "TypeError"
    ELSE IF stdin.tool_name # JsonString(LitBash) THEN "return"
    ELSE IF ~stdin.hasToolInput \/ Falsy(stdin.command) THEN "return"
    ELSE IF stdin.command.type # "string" THEN "TypeError"
    ELSE "decide"

\* JSON.stringify(output), as the object it serialises
HookOutput(command) ==
    [hookSpecificOutput |->
        [hookEventName |-> "PreToolUse", permissionDecision |-> "allow",
         updatedInput |-> [command |-> command]]]

\* what the process has written and the status it ended with
Written(stdout, stderr, exitCode) ==
    [stdout |-> stdout, stderr |-> stderr, exitCode |-> exitCode]

\* the end of main, from the result of processCommand
Outcome(result) ==
    IF result.decision = "block" THEN Written(<<>>, <<result.reason>>, 2)
    ELSE IF result.hasUpdate THEN Written(<<HookOutput(result.command)>>, <<>>, 0)
    ELSE Written(<<>>, <<>>, 0)

\* the promise of main is rejected and nobody handles it: the runtime prints
\* the error and the process ends with status 1
UnhandledRejection == Written(<<>>, <<"TypeError">>, 1)

IdleHook ==
    [pc |-> "idle", stdin |-> StdinBlank, command |-> <<>>, cwd |-> Undefined,
     procCwd |-> "/", result |-> Passthrough, out |-> Written(<<>>, <<>>, NoExit)]

\* the hook process after main ran on an input it does not decide on
Undecided(stdin) ==
    [IdleHook EXCEPT !.pc = IF BeforeDecision(stdin) = "TypeError" THEN "crashed"
                            ELSE "ignored",
                     !.stdin = stdin,
                     !.out = IF BeforeDecision(stdin) = "TypeError" THEN UnhandledRejection
                             ELSE Written(<<>>, <<>>, 0)]

\* the inputs main does not decide on
OtherInputs ==
    {StdinBlank, StdinNotJson, StdinNull, StdinNumber,
     StdinObject(JsonUndefined, FALSE, JsonUndefined),
     StdinObject(JsonString(LitRead), TRUE, JsonString(<<"l", "s">>)),
     StdinObject(JsonString(LitBash), FALSE, JsonUndefined),
     StdinObject(JsonString(LitBash), TRUE, JsonUndefined),
     StdinObject(JsonString(LitBash), TRUE, JsonString(<<>>)),
     StdinObject(JsonString(LitBash), TRUE, JsonNumber)}

Idle == hook.pc = "idle" /\ ex.pc = "idle"

Bump(n) == IF n < MaxHookCalls THEN n + 1 ELSE n

\* the user edits (or rv init creates) the manifest of a project directory
EditManifest ==
    /\ Idle
    /\ \E d \in ManifestDirs : \E m \in ManifestChoices(d) :
          /\ m # manifests[d]
          /\ manifests' = [manifests EXCEPT ![d] = m]
    /\ UNCHANGED <<approvedFile, lastOp, masterKeyFile, vault, vh, settings, cli, calc, writers,
                   hookVars, execVars>>

\* rv approve, run by the user in directory cwd
Approve ==
    /\ Idle
    /\ \E cwd \in ApprovalPaths :
          /\ approveProject(cwd)
          /\ lastOp' = [lastOp EXCEPT ![cwd] = "approve"]
    /\ hookCalls' = 0
    /\ UNCHANGED <<manifests, masterKeyFile, vault, vh, settings, cli, calc, writers, hook,
                   execVars>>

\* rv revoke, run by the user in directory cwd
Revoke ==
    /\ Idle
    /\ \E cwd \in ApprovalPaths :
          /\ revokeProject(cwd)
          /\ lastOp' = [lastOp EXCEPT ![cwd] = "revoke"]
    /\ hookCalls' = 0
    /\ UNCHANGED <<manifests, masterKeyFile, vault, vh, settings, cli, calc, writers, hook,
                   execVars>>

\* one hook invocation: the host proposes a Bash command, the hook decides
HookRun(commands) ==
    /\ Idle
    /\ \E command \in commands : \E cwd \in HookCwds : \E procCwd \in HookProcCwds :
          /\ BeforeDecision(BashInput(command)) = "decide"
          /\ \E result \in {processCommand(command, cwd, procCwd)} :
                hook' = [pc |-> "decided", stdin |-> BashInput(command),
                         command |-> command, cwd |-> cwd, procCwd |-> procCwd,
                         result |-> result, out |-> Outcome(result)]
    /\ hookCalls' = Bump(hookCalls)
    /\ UNCHANGED <<envVars, execVars>>

\* the hook is run on one of the sample commands
HookDecide == HookRun(Commands)

\* the hook is run on something else than a Bash command
HookOther ==
    /\ Idle
    /\ \E stdin \in OtherInputs :
          /\ BeforeDecision(stdin) # "decide"
          /\ hook' = Undecided(stdin)
    /\ hookCalls' = Bump(hookCalls)
    /\ UNCHANGED <<envVars, execVars>>

\* the hook process is gone; nothing of it survives
HookExit ==
    /\ hook.pc # "idle"
    /\ hook' = IdleHook
    /\ UNCHANGED <<envVars, hookCalls, execVars>>

\* rv-exec is started: the script runs up to the return of spawn, or exits
ExecStart ==
    /\ Idle
    /\ \E args \in ArgvSamples : \E cwd \in ExecCwds : \E env0 \in InheritedEnvs :
          \E r \in {ExecMain(args, cwd, env0)} :
             /\ ex' = r
             /\ dotenvFile' = DotenvWritten(r)
    /\ UNCHANGED <<envVars, hookVars>>

\* the child writes a chunk to stdout or stderr: into the pipe rv-exec reads,
\* or straight to the terminal when stdio is inherited
ChildWrite ==
    /\ ex.pc = "running"
    /\ ex.child = "running"
    /\ ex.written < MaxChunks
    /\ \E stream \in Streams : \E chunk \in SampleChunks :
          ex' = IF ex.stdio = "pipe"
                THEN [ex EXCEPT !.written = @ + 1,
                                !.pipe = Append(@, [stream |-> stream, text |-> chunk])]
                ELSE [ex EXCEPT !.written = @ + 1,
                                !.forwarded = Append(@, [stream |-> stream, text |-> chunk])]
    /\ UNCHANGED <<envVars, hookVars, dotenvFile>>

\* a 'data' event: the chunk is masked and forwarded
DataEvent ==
    /\ ex.pc = "running"
    /\ ex.pipe # <<>>
    /\ ex' = [ex EXCEPT !.pipe = Tail(@),
                        !.forwarded = Append(@, [stream |-> Head(ex.pipe).stream,
                                                 text |-> OnData(Head(ex.pipe).text,
                                                                 ex.secretValues)])]
    /\ UNCHANGED <<envVars, hookVars, dotenvFile>>

\* the child ends and its 'exit' event is handled: unlink, process.exit
ChildExit ==
    /\ ex.pc = "running"
    /\ ex.child = "running"
    /\ \E code \in ChildCodes :
          ex' = [ex EXCEPT !.pc = "exited", !.child = "ended", !.childCode = code,
                           !.exitCode = ExitStatus(ex.path, code)]
    /\ dotenvFile' = IF ex.hasDotenv THEN Unlinked ELSE dotenvFile
    /\ UNCHANGED <<envVars, hookVars>>

\* the spawn failed and the 'error' event is emitted: the handler of the
\* secrets path reports, unlinks and exits 2; without a listener the event is
\* thrown as an uncaught exception and the process dies with status 1
SpawnError ==
    /\ ex.pc = "running"
    /\ ex.child = "failed"
    /\ IF ex.errorHandler
       THEN /\ ex' = [ex EXCEPT !.pc = "exited", !.exitCode = 2,
                                !.stderr = @ \cup {"failed to execute"}]
            /\ dotenvFile' = IF ex.hasDotenv THEN Unlinked ELSE dotenvFile
       ELSE /\ ex' = [ex EXCEPT !.pc = "exited", !.exitCode = 1,
                                !.stderr = @ \cup {"uncaught exception"}]
            /\ UNCHANGED dotenvFile
    /\ UNCHANGED <<envVars, hookVars>>

\* the rv-exec process is gone; the files it left stay
ExecReap ==
    /\ ex.pc = "exited"
    /\ ex' = IdleExec
    /\ UNCHANGED <<envVars, hookVars, dotenvFile>>

\* ------------------------------------------------------- the Vault object

\* what a call on a Vault object gave back: a value, null, a boolean, a list
\* of names, nothing (void), or the error it threw
CallResult(kind, value, flag, names) ==
    [kind |-> kind, value |-> value, flag |-> flag, names |-> names]

NoResult == CallResult("none", <<>>, FALSE, {})
Returned == CallResult("void", <<>>, FALSE, {})
ReturnedNull == CallResult("null", <<>>, FALSE, {})
ReturnedValue(value) == CallResult("value", value, FALSE, {})
ReturnedBool(flag) == CallResult("boolean", <<>>, flag, {})
ReturnedNames(names) == CallResult("names", <<>>, FALSE, names)
Threw(message) == CallResult(message, <<>>, FALSE, {})

VaultIsLocked == "Vault is locked"
DecryptError == "decryption error"

NoCall == [op |-> "none", name |-> <<>>, value |-> <<>>]

\* the names and values callers store
SecretNames == {KeyA, KeyB}
StoredValues == {ValA, ValPA}

\* the history of calls, per name: never written, set to a value, or removed
NeverWritten == [state |-> "never", value |-> <<>>]
LastSet(value) == [state |-> "set", value |-> value]
LastRemoved == [state |-> "removed", value |-> <<>>]

\* no Vault object exists
NoVaultObject ==
    [open |-> FALSE, env |-> {}, hasKey |-> FALSE, key |-> keyToBuffer(<<>>),
     call |-> NoCall, result |-> NoResult, before |-> {},
     latest |-> [n \in SecretNames |-> NeverWritten]]

\* process.env of the process that holds the object: PSST_PASSWORD absent,
\* the empty string, or the passphrase of the master key file
ClientEnvs ==
    {BaseEnv, EnvSet(BaseEnv, PSST_PASSWORD, <<>>),
     EnvSet(BaseEnv, PSST_PASSWORD, MasterPassword)}

\* if (process.env.X): set and not the empty string
Truthy(env, name) == EnvHas(env, name) /\ EnvGet(env, name) # <<>>

\* the rows of the table with this name
Rows(entries, name) == {e \in entries : e.name = name}

\* INSERT without ON CONFLICT, were the primary key not enforced
Upsert_InsertOnly(entries, row) == entries \cup {row}

\* INSERT ... ON CONFLICT(name) DO UPDATE
Upsert(entries, row) == (entries \ Rows(entries, row.name)) \cup {row}

\* DELETE FROM secrets WHERE name = ?
DeleteRows(entries, name) == entries \ Rows(entries, name)

\* getSecret, after the lock check
SelectAndDecrypt(entries, name, key) ==
    IF Rows(entries, name) = {} THEN ReturnedNull
    ELSE LET row == CHOOSE e \in Rows(entries, name) : TRUE
         IN  IF DecryptOk(row, key) THEN ReturnedValue(row.value) ELSE Threw(DecryptError)

\* the object after a call: what was called, what came back, the rows before
Called(op, name, value, result) ==
    [vh EXCEPT !.call = [op |-> op, name |-> name, value |-> value],
               !.result = result, !.before = vault.entries]

\* new Vault(path) on an existing vault directory, in a process with or
\* without PSST_PASSWORD
NewVault ==
    /\ ~vh.open
    /\ vault.exists
    /\ \E env \in ClientEnvs :
          vh' = [NoVaultObject EXCEPT !.open = TRUE, !.env = env,
                                      !.latest = vh.latest]
    /\ UNCHANGED <<manifests, approvedFile, lastOp, masterKeyFile, vault, settings, cli, calc,
                   writers, hookVars, execVars>>

\* vault.unlock()
Unlock ==
    /\ vh.open
    /\ vh' = IF Truthy(vh.env, PSST_PASSWORD)
             THEN [Called("unlock", <<>>, <<>>, ReturnedBool(TRUE))
                     EXCEPT !.hasKey = TRUE, !.key = UnlockedKey(vh.env)]
             ELSE Called("unlock", <<>>, <<>>, ReturnedBool(FALSE))
    /\ UNCHANGED <<manifests, approvedFile, lastOp, masterKeyFile, vault, settings, cli, calc,
                   writers, hookVars, execVars>>

\* vault.setSecret(name, value)
SetSecret ==
    /\ vh.open
    /\ \E name \in SecretNames : \E value \in StoredValues :
          IF ~vh.hasKey
          THEN /\ vh' = Called("setSecret", name, value, Threw(VaultIsLocked))
               /\ UNCHANGED vault
          ELSE /\ vault' = [vault EXCEPT !.entries =
                              Upsert(@, [name |-> name, value |-> value,
                                         key |-> vh.key, intact |-> TRUE])]
               /\ vh' = [Called("setSecret", name, value, Returned)
                           EXCEPT !.latest[name] = LastSet(value)]
    /\ UNCHANGED <<manifests, approvedFile, lastOp, masterKeyFile, settings, cli, calc, writers,
                   hookVars, execVars>>

\* vault.getSecret(name)
GetSecret ==
    /\ vh.open
    /\ \E name \in SecretNames :
          vh' = Called("getSecret", name, <<>>,
                       IF ~vh.hasKey THEN Threw(VaultIsLocked)
                       ELSE SelectAndDecrypt(vault.entries, name, vh.key))
    /\ UNCHANGED <<manifests, approvedFile, lastOp, masterKeyFile, vault, settings, cli, calc,
                   writers, hookVars, execVars>>

\* vault.listSecrets()
ListSecrets ==
    /\ vh.open
    /\ vh' = Called("listSecrets", <<>>, <<>>, ReturnedNames({e.name : e \in vault.entries}))
    /\ UNCHANGED <<manifests, approvedFile, lastOp, masterKeyFile, vault, settings, cli, calc,
                   writers, hookVars, execVars>>

\* vault.removeSecret(name)
RemoveSecret ==
    /\ vh.open
    /\ \E name \in SecretNames :
          /\ vault' = [vault EXCEPT !.entries = DeleteRows(@, name)]
          /\ vh' = [Called("removeSecret", name, <<>>,
                           ReturnedBool(Rows(vault.entries, name) # {}))
                      EXCEPT !.latest[name] = LastRemoved]
    /\ UNCHANGED <<manifests, approvedFile, lastOp, masterKeyFile, settings, cli, calc, writers,
                   hookVars, execVars>>

\* vault.close(): the object is dropped, the rows stay
CloseVault ==
    /\ vh.open
    /\ vh' = [NoVaultObject EXCEPT !.latest = vh.latest]
    /\ UNCHANGED <<manifests, approvedFile, lastOp, masterKeyFile, vault, settings, cli, calc,
                   writers, hookVars, execVars>>

\* ------------------------------------------------------------ rv: init

MaxHookEntries == 2

\* .claude/settings.json of a directory: whether it exists, whether a
\* PreToolUse entry runs "rv-hook" or a setup.sh (the plugin's), and how many
\* entries rv init has pushed
NoSettings == [exists |-> FALSE, plugin |-> FALSE, pushed |-> 0]

\* no rv process
IdleCli ==
    [pc |-> "idle", cmd |-> "none", cwd |-> "/", out |-> {}, exitCode |-> NoExit,
     psstFound |-> TRUE,
     before |-> [masterKeyFile |-> [exists |-> FALSE, content |-> <<>>],
                 vault |-> [exists |-> FALSE, path |-> NoPath, entries |-> {}]]]

\* randomBytes(32).toString("hex"), two of its outcomes
GeneratedKeys == {<<"m", "k">>, <<"k", "2">>}

\* runInit, step 1: the master key file is kept, or written with a new key
MasterKeyStep(keyFile, key) ==
    IF keyFile.exists
    THEN [file |-> keyFile, out |-> {"Master key already exists"}]
    ELSE [file |-> [exists |-> TRUE, content |-> key \o <<"\n">>],
          out |-> {"Created master key"}]

\* initializeVault: needs the passphrase, creates the directory and vault.db
initializeVault(v, password) ==
    IF password = <<>>
    THEN [success |-> FALSE, vault |-> v]
    ELSE [success |-> TRUE, vault |-> [exists |-> TRUE, path |-> HomePsst, entries |-> {}]]

\* a vault init that creates the vault over the one that exists
initVault_Recreate(v, password) == initializeVault(v, password)

\* initVault: an existing vault is left as it is
initVault(v, password) ==
    IF v.exists THEN [success |-> TRUE, vault |-> v] ELSE initializeVault(v, password)

\* runInit, step 2: psst init --global with the master key as passphrase;
\* psst may be missing
VaultStep(v, keyFile, psstFound) ==
    IF ~psstFound THEN [success |-> FALSE, vault |-> v]
    ELSE initVault(v, Trim(keyFile.content))

\* runInit, step 3: .rv.json is created if missing
ManifestStep(manifest) ==
    IF manifest = NoFile
    THEN [file |-> MfEmpty, out |-> {"Created .rv.json"}]
    ELSE [file |-> manifest, out |-> {".rv.json already exists"}]

\* runInit, step 4: the hook entry is pushed unless an entry runs "rv-hook" or
\* a setup.sh; the entry pushed runs "node <dir>/hook.js"
SettingsStep(s) ==
    IF s.plugin
    THEN [file |-> [s EXCEPT !.exists = TRUE], out |-> {"rv-hook already configured"}]
    ELSE [file |-> [s EXCEPT !.exists = TRUE, !.pushed = @ + 1],
          out |-> {"Added rv-hook to .claude/settings.json"}]

\* the rv process after a command: what it printed and its exit status
CliDone(cmd, cwd, out, exitCode) ==
    [pc |-> "done", cmd |-> cmd, cwd |-> cwd, out |-> out, exitCode |-> exitCode,
     psstFound |-> TRUE,
     before |-> [masterKeyFile |-> masterKeyFile, vault |-> vault]]

\* rv init, run by the user in directory cwd
RunInit ==
    /\ Idle
    /\ cli.pc = "idle"
    /\ \E cwd \in ManifestDirs : \E key \in GeneratedKeys : \E psstFound \in BOOLEAN :
       \E k \in {MasterKeyStep(masterKeyFile, key)} :
       \E v \in {VaultStep(vault, k.file, psstFound)} :
          /\ masterKeyFile' = k.file
          /\ vault' = v.vault
          /\ IF ~v.success
             THEN /\ cli' = [CliDone("init", cwd,
                                     k.out \cup {"Failed to initialize psst vault. Is psst installed?"},
                                     1) EXCEPT !.psstFound = psstFound]
                  /\ UNCHANGED <<manifests, settings>>
             ELSE /\ settings[cwd].plugin \/ settings[cwd].pushed < MaxHookEntries
                  /\ \E m \in {ManifestStep(manifests[cwd])} :
                     \E s \in {SettingsStep(settings[cwd])} :
                        /\ manifests' = [manifests EXCEPT ![cwd] = m.file]
                        /\ settings' = [settings EXCEPT ![cwd] = s.file]
                        /\ cli' = CliDone("init", cwd,
                                          k.out \cup {"psst vault initialized"} \cup m.out
                                             \cup s.out \cup {"Setup complete"},
                                          0)
    /\ UNCHANGED <<approvedFile, lastOp, vh, calc, writers, hookVars, execVars>>

\* the rv process is gone
CliExit ==
    /\ cli.pc = "done"
    /\ cli' = IdleCli
    /\ UNCHANGED <<manifests, approvedFile, lastOp, masterKeyFile, vault, vh, settings, calc,
                   writers, hookVars, execVars>>

\* ---------------------------------- rv approve / rv revoke, two at a time

Writers == {1, 2}

\* store[cwd] = {...} or delete store[cwd], without the store that was loaded
Modified_Replace(op, cwd, store) == IF op = "approve" THEN {cwd} ELSE {}

\* store[cwd] = {...} in approveProject, delete store[cwd] in revokeProject
Modified(op, cwd, store) == IF op = "approve" THEN store \cup {cwd} ELSE store \ {cwd}

\* an rv approve or rv revoke process between its steps
Writer(pc, op, cwd, store, overlapped) ==
    [pc |-> pc, op |-> op, cwd |-> cwd, store |-> store, overlapped |-> overlapped]

\* the process holds a store it has loaded and has not finished writing
MidWrite(w) == w.pc \in {"loaded", "truncated"}

\* the user starts rv approve or rv revoke in a directory
WriterStart(i) ==
    /\ writers.procs[i].pc = "none"
    /\ \E op \in {"approve", "revoke"} : \E cwd \in ApprovalPaths :
          writers' = [writers EXCEPT !.procs[i] = Writer("started", op, cwd, {}, FALSE)]
    /\ UNCHANGED <<manifests, approvedFile, lastOp, masterKeyFile, vault, vh, settings, cli,
                   calc, hookVars, execVars>>

\* loadStore, and the change of the loaded store
WriterLoad(i) ==
    /\ writers.procs[i].pc = "started"
    /\ writers' =
          [writers EXCEPT
             !.procs[i] = [@ EXCEPT !.pc = "loaded",
                                    !.store = Modified(writers.procs[i].op,
                                                       writers.procs[i].cwd, loadStore),
                                    !.overlapped = \E j \in Writers \ {i} :
                                                      MidWrite(writers.procs[j])],
             !.overlap = @ \/ \E j \in Writers \ {i} : MidWrite(writers.procs[j])]
    /\ UNCHANGED <<manifests, approvedFile, lastOp, masterKeyFile, vault, vh, settings, cli,
                   calc, hookVars, execVars>>

\* saveStore, first half: writeFileSync opens the file and truncates it; a
\* reader now finds text JSON.parse rejects and takes the store for empty
WriterTruncate(i) ==
    /\ writers.procs[i].pc = "loaded"
    /\ approvedFile' = [exists |-> TRUE, store |-> {}]
    /\ writers' = [writers EXCEPT !.procs[i].pc = "truncated"]
    /\ UNCHANGED <<manifests, lastOp, masterKeyFile, vault, vh, settings, cli, calc, hookVars,
                   execVars>>

\* saveStore, second half: the whole store is written, and the process ends
WriterWrite(i) ==
    /\ writers.procs[i].pc = "truncated"
    /\ saveStore(writers.procs[i].store)
    /\ writers' = [writers EXCEPT !.procs[i].pc = "done", !.last = i]
    /\ UNCHANGED <<manifests, lastOp, masterKeyFile, vault, vh, settings, cli, calc, hookVars,
                   execVars>>

\* ------------------------------------------------- the shell of the host

\* the characters that end a word or start an operator when unquoted
ShellMeta == {"|", "&", ";", "<", ">", "(", ")", "\""}

\* POSIX word splitting of a command line with single quotes and backslashes:
\* inside single quotes every character is literal up to the next single
\* quote; outside, a backslash makes the next character literal and blanks
\* separate words. [ok, words]; not ok on an open quote or an unquoted operator.
RECURSIVE ShellParse(_, _, _, _, _)
ShellParse(s, quoted, cur, inWord, words) ==
    IF s = <<>>
    THEN IF quoted THEN [ok |-> FALSE, words |-> <<>>]
         ELSE [ok |-> TRUE, words |-> IF inWord THEN Append(words, cur) ELSE words]
    ELSE IF quoted
         THEN IF Head(s) = "'" THEN ShellParse(Tail(s), FALSE, cur, TRUE, words)
              ELSE ShellParse(Tail(s), TRUE, Append(cur, Head(s)), TRUE, words)
    ELSE IF Head(s) = "'" THEN ShellParse(Tail(s), TRUE, cur, TRUE, words)
    ELSE IF Head(s) = "\\"
         THEN IF Len(s) >= 2
              THEN ShellParse(Tail(Tail(s)), FALSE, Append(cur, s[2]), TRUE, words)
              ELSE ShellParse(<<>>, FALSE, Append(cur, "\\"), TRUE, words)
    ELSE IF Head(s) \in ShellMeta THEN [ok |-> FALSE, words |-> <<>>]
    ELSE IF Head(s) \in WS
         THEN ShellParse(Tail(s), FALSE, <<>>, FALSE, IF inWord THEN Append(words, cur) ELSE words)
    ELSE ShellParse(Tail(s), FALSE, Append(cur, Head(s)), TRUE, words)

ShellWords(s) == ShellParse(s, FALSE, <<>>, FALSE, <<>>)

\* ------------------------------------------- the host runs what the hook let by

\* 'rv-exec B -- ls'
CmdExecB ==
    <<"r", "v", "-", "e", "x", "e", "c", " ", "B", " ", "-", "-", " ", "l", "s">>

\* the commands the agent proposes here
PipeCommands == {CmdLs, CmdExecLs, CmdExecB}

\* the command the host runs after a hook that exited 0: the updated one if
\* the hook wrote one, else the proposed one
HostCommand == IF hook.result.hasUpdate THEN hook.result.command ELSE hook.command

\* the hook is run on a command of the agent
HookDecidePipe == HookRun(PipeCommands)

\* the host runs the command in the directory of the tool call; an rv-exec
\* command starts rv-exec with the words the shell makes of it
HostExec ==
    /\ hook.pc = "decided"
    /\ hook.out.exitCode = 0
    /\ ex.pc = "idle"
    /\ \E words \in {ShellWords(HostCommand).words} :
          /\ words # <<>>
          /\ Head(words) = <<"r", "v", "-", "e", "x", "e", "c">>
          /\ \E r \in {ExecMain(Tail(words),
                                IF hook.cwd # Undefined THEN hook.cwd ELSE hook.procCwd,
                                BaseEnv)} :
                /\ ex' = r
                /\ dotenvFile' = DotenvWritten(r)
    /\ UNCHANGED <<envVars, hookVars>>

\* the tool call is over: the hook's decision and the rv-exec process are gone
ToolCallEnds ==
    /\ hook.pc = "decided"
    /\ ex.pc \in {"idle", "exited"}
    /\ hook' = IdleHook
    /\ ex' = IdleExec
    /\ UNCHANGED <<envVars, hookCalls, dotenvFile>>

\* ------------------------------------------------------- specifications

InitEnv ==
    /\ manifests = [d \in ManifestDirs |-> NoFile]
    /\ approvedFile = [exists |-> FALSE, store |-> {}]
    /\ lastOp = [p \in ApprovalPaths |-> "none"]
    /\ masterKeyFile = [exists |-> FALSE, content |-> <<>>]
    /\ vault = [exists |-> FALSE, path |-> NoPath, entries |-> {}]

InitProcs ==
    /\ hook = IdleHook
    /\ hookCalls = 0
    /\ ex = IdleExec
    /\ dotenvFile = Unlinked
    /\ vh = NoVaultObject
    /\ settings = [d \in ManifestDirs |-> NoSettings]
    /\ cli = IdleCli
    /\ writers = NoWriters
    /\ calc = NoCalc

\* the hook and the approval store, from a fresh installation
Init == InitEnv /\ InitProcs

Next ==
    \/ EditManifest
    \/ Approve
    \/ Revoke
    \/ HookDecide
    \/ HookOther
    \/ HookExit

Spec == Init /\ [][Next]_vars

\* rv-exec, started in an environment the user has set up: a manifest in /p
\* or none, /p approved or not, a master key file or none, one of the vaults
InitExec ==
    /\ manifests \in {[d \in ManifestDirs |-> NoFile],
                      [d \in ManifestDirs |-> IF d = "/p" THEN MfA ELSE NoFile],
                      [d \in ManifestDirs |-> IF d = "/p" THEN MfAB ELSE NoFile]}
    /\ \E approved \in BOOLEAN :
          /\ approvedFile = [exists |-> approved, store |-> IF approved THEN {"/p"} ELSE {}]
          /\ lastOp = [p \in ApprovalPaths |->
                         IF approved /\ p = "/p" THEN "approve" ELSE "none"]
    /\ masterKeyFile \in MasterKeyChoices
    /\ vault \in VaultChoices
    /\ InitProcs

NextExec ==
    \/ ExecStart
    \/ ChildWrite
    \/ DataEvent
    \/ ChildExit
    \/ SpawnError
    \/ ExecReap

SpecExec == InitExec /\ [][NextExec]_vars

\* --------------------------------------------------- masking, on its own

MaxSecretLen == 2
MaxChunkLen == 3

\* two characters the redaction token lacks and one it has
MaskAlphabet == {"a", "b", "E"}

Strings(n) == UNION {[1..k -> MaskAlphabet] : k \in 0..n}

\* rv-exec --project my-app A B=X -- ls has resolved A and B against a vault
\* holding any two values, the child runs behind the masked pipes and has
\* written one chunk
InitMask ==
    /\ manifests = [d \in ManifestDirs |-> NoFile]
    /\ approvedFile = [exists |-> FALSE, store |-> {}]
    /\ lastOp = [p \in ApprovalPaths |-> "none"]
    /\ masterKeyFile = [exists |-> TRUE, content |-> <<"m", "k", "\n">>]
    /\ \E a \in Strings(MaxSecretLen) : \E b \in Strings(MaxSecretLen) :
          vault = [exists |-> TRUE, path |-> HomePsst, entries |-> {VaultEntry(KeyA, a), VaultEntry(KeyB, b)}]
    /\ hook = IdleHook
    /\ hookCalls = 0
    /\ dotenvFile = Unlinked
    /\ vh = NoVaultObject
    /\ settings = [d \in ManifestDirs |-> NoSettings]
    /\ cli = IdleCli
    /\ writers = NoWriters
    /\ calc = NoCalc
    /\ \E r \in {ExecMain(ArgvProjectAB, "/q", BaseEnv)} :
          \E stream \in Streams : \E chunk \in Strings(MaxChunkLen) :
             ex = [r EXCEPT !.written = 1, !.pipe = <<[stream |-> stream, text |-> chunk]>>]

NextMask == DataEvent

SpecMask == InitMask /\ [][NextMask]_vars

\* --------------------------------------------------- quoting, on its own

MaxCommandLen == 3

\* a letter, a blank, the two quoting characters and a shell operator
QuoteAlphabet == {"a", " ", "'", "\\", "|"}

\* every non-empty command over the alphabet: main hands an empty command
\* to nobody
QuoteCommands == UNION {[1..k -> QuoteAlphabet] : k \in 1..MaxCommandLen}

\* an approved project at /p that declares secrets
InitQuote ==
    /\ manifests \in {[d \in ManifestDirs |-> IF d = "/p" THEN MfA ELSE NoFile],
                      [d \in ManifestDirs |-> IF d = "/p" THEN MfAB ELSE NoFile]}
    /\ approvedFile = [exists |-> TRUE, store |-> {"/p"}]
    /\ lastOp = [p \in ApprovalPaths |-> IF p = "/p" THEN "approve" ELSE "none"]
    /\ masterKeyFile = [exists |-> FALSE, content |-> <<>>]
    /\ vault = [exists |-> FALSE, path |-> NoPath, entries |-> {}]
    /\ InitProcs

\* the hook is run on any command
HookDecideAny == HookRun(QuoteCommands)

NextQuote ==
    \/ HookDecideAny
    \/ HookExit

SpecQuote == InitQuote /\ [][NextQuote]_vars

\* ------------------------------------------------ the Vault object, on its own

\* rv init has created an empty vault; callers open it, with or without the
\* passphrase in their environment, and call its methods
InitVault ==
    /\ manifests = [d \in ManifestDirs |-> NoFile]
    /\ approvedFile = [exists |-> FALSE, store |-> {}]
    /\ lastOp = [p \in ApprovalPaths |-> "none"]
    /\ masterKeyFile = [exists |-> TRUE, content |-> <<"m", "k", "\n">>]
    /\ vault = [exists |-> TRUE, path |-> HomePsst, entries |-> {}]
    /\ InitProcs

NextVault ==
    \/ NewVault
    \/ Unlock
    \/ SetSecret
    \/ GetSecret
    \/ ListSecrets
    \/ RemoveSecret
    \/ CloseVault

SpecVault == InitVault /\ [][NextVault]_vars

\* ------------------------------------------------------ rv init, on its own

\* a machine without a master key; the vault is missing or was created by an
\* earlier psst, in ~/.psst or in its default environment; a project may be
\* wired to the plugin's hook already
InitInit ==
    /\ manifests \in {[d \in ManifestDirs |-> NoFile],
                      [d \in ManifestDirs |-> IF d = "/p" THEN MfA ELSE NoFile]}
    /\ approvedFile = [exists |-> FALSE, store |-> {}]
    /\ lastOp = [p \in ApprovalPaths |-> "none"]
    /\ masterKeyFile \in {[exists |-> FALSE, content |-> <<>>],
                          [exists |-> TRUE, content |-> <<"\n">>]}
    /\ vault \in {[exists |-> FALSE, path |-> NoPath, entries |-> {}],
                  [exists |-> TRUE, path |-> HomePsstDefaultEnv,
                   entries |-> {VaultEntry(KeyA, ValA)}]}
    /\ hook = IdleHook
    /\ hookCalls = 0
    /\ ex = IdleExec
    /\ dotenvFile = Unlinked
    /\ vh = NoVaultObject
    /\ settings \in {[d \in ManifestDirs |-> NoSettings],
                     [d \in ManifestDirs |->
                        IF d = "/q" THEN [exists |-> TRUE, plugin |-> TRUE, pushed |-> 0]
                        ELSE NoSettings]}
    /\ cli = IdleCli
    /\ writers = NoWriters
    /\ calc = NoCalc

NextInit ==
    \/ RunInit
    \/ CliExit

SpecInit == InitInit /\ [][NextInit]_vars

\* ------------------------------------------------ scoped keys, on their own

MaxNameLen == 3
MaxOtherLen == 2

\* a lower-case letter, an upper-case letter, a digit, and two characters
\* outside [A-Z0-9], one of them the underscore
NameAlphabet == {"a", "B", "1", "-", "_"}

Names(n) == UNION {[1..k -> NameAlphabet] : k \in 0..n}

\* buildScopedKey is about to be called for two project names and a key
InitNorm ==
    /\ InitEnv
    /\ hook = IdleHook
    /\ hookCalls = 0
    /\ ex = IdleExec
    /\ dotenvFile = Unlinked
    /\ vh = NoVaultObject
    /\ settings = [d \in ManifestDirs |-> NoSettings]
    /\ cli = IdleCli
    /\ writers = NoWriters
    /\ \E n1 \in Names(MaxNameLen) : \E n2 \in Names(MaxOtherLen) : \E key \in {KeyA, <<"_", "b">>} :
          calc = [pc |-> "args", n1 |-> n1, n2 |-> n2, key |-> key,
                  normalized |-> <<>>, again |-> <<>>, other |-> <<>>,
                  scoped1 |-> <<>>, scoped2 |-> <<>>]

\* normalizeProjectName(n1), normalizeProjectName of that, and
\* buildScopedKey(n1, key), buildScopedKey(n2, key)
ScopeKeys ==
    /\ calc.pc = "args"
    /\ \E n \in {normalizeProjectName(calc.n1)} :
          calc' = [calc EXCEPT !.pc = "done",
                               !.normalized = n,
                               !.again = normalizeProjectName(n),
                               !.other = normalizeProjectName(calc.n2),
                               !.scoped1 = buildScopedKey(calc.n1, calc.key),
                               !.scoped2 = buildScopedKey(calc.n2, calc.key)]
    /\ UNCHANGED <<manifests, approvedFile, lastOp, masterKeyFile, vault, vh, settings, cli,
                   writers, hookVars, execVars>>

NextNorm == ScopeKeys

SpecNorm == InitNorm /\ [][NextNorm]_vars

\* ---------------------------------------- concurrent approvals, on their own

\* any approval store, and two rv processes about to be started
InitRace ==
    /\ manifests = [d \in ManifestDirs |-> NoFile]
    /\ \E store \in SUBSET ApprovalPaths :
          /\ approvedFile = [exists |-> store # {}, store |-> store]
          /\ writers = [pc |-> "race", base |-> store, overlap |-> FALSE, last |-> 0,
                        procs |-> [i \in Writers |-> Writer("none", "none", "/", {}, FALSE)]]
    /\ lastOp = [p \in ApprovalPaths |-> "none"]
    /\ masterKeyFile = [exists |-> FALSE, content |-> <<>>]
    /\ vault = [exists |-> FALSE, path |-> NoPath, entries |-> {}]
    /\ hook = IdleHook
    /\ hookCalls = 0
    /\ ex = IdleExec
    /\ dotenvFile = Unlinked
    /\ vh = NoVaultObject
    /\ settings = [d \in ManifestDirs |-> NoSettings]
    /\ cli = IdleCli
    /\ calc = NoCalc

NextRace ==
    \/ \E i \in Writers : WriterStart(i)
    \/ \E i \in Writers : WriterLoad(i)
    \/ \E i \in Writers : WriterTruncate(i)
    \/ \E i \in Writers : WriterWrite(i)

SpecRace == InitRace /\ [][NextRace]_vars

\* ---------------------------------------------- hook and rv-exec, end to end

\* /p holds a manifest that declares A, or A and B as X; it is approved or
\* not; the vault holds A and B under the passphrase of the master key file
InitPipe ==
    /\ manifests \in {[d \in ManifestDirs |-> IF d = "/p" THEN MfA ELSE NoFile],
                      [d \in ManifestDirs |-> IF d = "/p" THEN MfAB ELSE NoFile]}
    /\ \E approved \in BOOLEAN :
          /\ approvedFile = [exists |-> approved, store |-> IF approved THEN {"/p"} ELSE {}]
          /\ lastOp = [p \in ApprovalPaths |->
                         IF approved /\ p = "/p" THEN "approve" ELSE "none"]
    /\ masterKeyFile = [exists |-> TRUE, content |-> <<"m", "k", "\n">>]
    /\ vault = [exists |-> TRUE, path |-> HomePsst,
                entries |-> {VaultEntry(KeyA, ValA), VaultEntry(KeyB, ValPA)}]
    /\ InitProcs

NextPipe ==
    \/ HookDecidePipe
    \/ HostExec
    \/ ChildExit
    \/ ToolCallEnds

SpecPipe == InitPipe /\ [][NextPipe]_vars

\* ===================================================== claims: the hook

Decided == hook.pc = "decided"

Depth(d) ==
    CASE d = "/" -> 0
      [] d = "/p/s" -> 2
      [] OTHER -> 1

\* d and the directories above it
AncestorsOrSelf(d) ==
    CASE d = "/p/s" -> {"/p/s", "/p", "/"}
      [] d = "/p" -> {"/p", "/"}
      [] d = "/q" -> {"/q", "/"}
      [] OTHER -> {"/"}

HasManifest(d) == d \in ManifestDirs /\ manifests[d] # NoFile

\* the nearest directory at or above d that holds a manifest
NearestManifestDir(d) ==
    IF d = Undefined \/ ~\E a \in AncestorsOrSelf(d) : HasManifest(a) THEN Undefined
    ELSE CHOOSE a \in AncestorsOrSelf(d) :
            /\ HasManifest(a)
            /\ \A b \in AncestorsOrSelf(d) : HasManifest(b) => Depth(b) <= Depth(a)

\* the project a decide call is about: found from its cwd, else from the
\* hook's own working directory
ProjectRoot ==
    IF NearestManifestDir(hook.cwd) # Undefined THEN NearestManifestDir(hook.cwd)
    ELSE NearestManifestDir(hook.procCwd)

\* the manifests that are valid and declare at least one secret
DeclaringManifests == {MfA, MfAB}

DeclaresSecrets(root) == root # Undefined /\ manifests[root] \in DeclaringManifests

InStore(root) == approvedFile.exists /\ root \in approvedFile.store

IsRewrite(r) == r.decision = "none" /\ r.hasUpdate

RvPrefixed(command) == StartsWith(Trim(command), <<"r", "v", " ">>)

\* neither hard-blocked nor agent-restricted, and not an rv-exec, psst or rv command
Ordinary(command) ==
    /\ ~MatchesBlocked(Trim(command))
    /\ ~MatchesAgentBlocked(Trim(command))
    /\ ~StartsWith(Trim(command), <<"r", "v", "-", "e", "x", "e", "c", " ">>)
    /\ ~StartsWith(Trim(command), <<"p", "s", "s", "t", " ">>)
    /\ ~RvPrefixed(command)

\* C1 as stated: under an unapproved project with at least one declared secret,
\* every command except the rv-prefixed ones is blocked with the reason that
\* names rv approve.
C1_AsStated ==
    (Decided /\ DeclaresSecrets(ProjectRoot) /\ ~InStore(ProjectRoot)
        /\ ~RvPrefixed(hook.command))
    => hook.result = Block(ReasonNotApproved)

\* C1, amended: under an unapproved project with at least one declared secret,
\* every command that no earlier rule decides (not hard-blocked, not
\* agent-restricted, not starting with rv-exec, psst or rv) is blocked with the
\* reason that names rv approve.
C1_UnapprovedBlocks ==
    (Decided /\ DeclaresSecrets(ProjectRoot) /\ ~InStore(ProjectRoot)
        /\ Ordinary(hook.command))
    => hook.result = Block(ReasonNotApproved)

C1_Witness ==
    /\ Decided
    /\ hook.command = CmdLs
    /\ hook.cwd = "/p/s"
    /\ ProjectRoot = "/p"
    /\ manifests["/p"] = MfAB
    /\ ~InStore("/p")
    /\ InStore("/q")
    /\ hook.result = Block(ReasonNotApproved)

\* C3: after any serial sequence of approveProject/revokeProject calls, a path
\* is approved exactly when the most recent call naming it was approveProject
\* (never named: not approved); calls naming other paths leave it alone.
C3_ApprovedIffLastApprove ==
    \A p \in ApprovalPaths : isApproved(p) <=> lastOp[p] = "approve"

C3_Witness ==
    /\ lastOp["/p"] = "revoke"
    /\ lastOp["/q"] = "approve"
    /\ lastOp["/p/s"] = "none"
    /\ ~isApproved("/p")
    /\ isApproved("/q")

\* C4: between an approve of R and the next revoke of R every decide call for
\* an ordinary command in R (at least one declared secret) returns Rewrite,
\* however many hook invocations came before; after a revoke of R it returns
\* Block.
C4_DurableApproval ==
    \A R \in ManifestDirs :
        (Decided /\ hook.cwd = R /\ DeclaresSecrets(R) /\ Ordinary(hook.command))
        => /\ lastOp[R] = "approve" => IsRewrite(hook.result)
           /\ lastOp[R] = "revoke" => hook.result = Block(ReasonNotApproved)

C4_Witness ==
    /\ Decided
    /\ hook.cwd = "/p"
    /\ hook.command = CmdEcho
    /\ manifests["/p"] = MfA
    /\ lastOp["/p"] = "approve"
    /\ hookCalls >= 2
    /\ IsRewrite(hook.result)

\* the commands of the sample that dump the environment, read the raw store
\* or call the store CLI's get/export
ExfilCommands ==
    {CmdEnv, CmdEnvPadded, CmdEnvDash, CmdPrintenv, CmdPsstGet, CmdPsstExport,
     CmdCatVault, CmdSqliteVault, CmdExecCatVault, CmdRvListCatVault}

\* C5: a command matching a hard-block pattern is blocked with the "could
\* expose secret values" reason in every manifest and approval state, also
\* when a later rule (rv-exec skip, psst, rv) would match it.
C5_HardBlockFirst ==
    (Decided /\ (hook.command \in ExfilCommands \/ MatchesBlocked(Trim(hook.command))))
    => hook.result = Block(ReasonExposes)

C5_Witness ==
    /\ Decided
    /\ hook.command = CmdExecCatVault
    /\ hook.cwd = "/p"
    /\ manifests["/p"] = MfA
    /\ InStore("/p")
    /\ hook.result = Block(ReasonExposes)

Range(seq) == {seq[i] : i \in 1..Len(seq)}

\* s occurs in text
Contains(text, s) == \E i \in 1..Len(text) : LitAt(text, s, i)

SharesChar(s, t) == \E i \in 1..Len(s) : \E j \in 1..Len(t) : s[i] = t[j]

\* the project rv-exec was started in
ExecRoot == NearestManifestDir(ex.cwd)

\* C2 as stated: rv-exec started inside a project whose manifest declares
\* secrets and whose root is not approved does not run the target command
\* with secrets in its environment.
C2_AsStated ==
    (ex.pc # "idle" /\ DeclaresSecrets(ExecRoot) /\ ~InStore(ExecRoot))
    => ~(ex.spawned /\ ex.secrets # <<>>)

\* C7 as stated: once a run with --dotenv has ended, whichever way it ended,
\* the dotenv file does not exist.
C7_AsStated == (ex.pc = "exited" /\ ex.hasDotenv) => ~dotenvFile.exists

\* C9: whenever the target command has been spawned, on the zero-resolved
\* path or the secrets path, masked or not, its environment has no
\* PSST_PASSWORD, inherited or loaded from the master key file.
C9_NoPasswordInChild == ex.spawned => ~EnvHas(ex.childEnv, PSST_PASSWORD)

C9_Witness ==
    /\ ex.spawned
    /\ ex.path = "zero"
    /\ ~ex.inheritedAuth
    /\ masterKeyFile.exists
    /\ BaseEnv \subseteq ex.childEnv

\* the key and the env name of the key specs rv-exec is given
KeyOfSpec(keySpec) ==
    CASE keySpec = <<"A">> -> KeyA
      [] keySpec = <<"B">> -> KeyB
      [] keySpec = <<"B", "=", "X">> -> KeyB
      [] keySpec = WordAll -> WordAll

EnvNameOfSpec(keySpec) ==
    CASE keySpec = <<"A">> -> KeyA
      [] keySpec = <<"B">> -> KeyB
      [] keySpec = <<"B", "=", "X">> -> AliasX
      [] keySpec = WordAll -> WordAll

\* NORMALIZED_PROJECT__KEY, written out
ScopedName(projectName, key) ==
    CASE projectName = ProjMyApp /\ key = KeyA -> NameMyAppA
      [] projectName = ProjMyApp /\ key = KeyB -> <<"M", "Y", "_", "A", "P", "P", "_", "_", "B">>
      [] projectName = <<"p">> /\ key = KeyA -> NamePA
      [] projectName = <<"p">> /\ key = KeyB -> <<"P", "_", "_", "B">>
      [] projectName = ProjMyApp /\ key = WordAll
            -> <<"M", "Y", "_", "A", "P", "P", "_", "_", "-", "-", "a", "l", "l">>
      [] projectName = <<"p">> /\ key = WordAll -> <<"P", "_", "_", "-", "-", "a", "l", "l">>

VaultNames == {e.name : e \in vault.entries}

ResolvedAs(keySpec, vaultKey) ==
    /\ [vaultKey |-> vaultKey, envName |-> EnvNameOfSpec(keySpec)] \in Range(ex.resolved)
    /\ \A e \in Range(ex.resolved) : e.envName = EnvNameOfSpec(keySpec) => e.vaultKey = vaultKey
    /\ EnvNameOfSpec(keySpec) \notin Range(ex.missing)

ReportedMissing(keySpec) ==
    /\ EnvNameOfSpec(keySpec) \in Range(ex.missing)
    /\ \A e \in Range(ex.resolved) : e.envName # EnvNameOfSpec(keySpec)

\* C10: once the resolution loop has run, every key spec whose scoped name is
\* in the vault (a project name being known) is resolved to the scoped name,
\* also when the bare key is there too; else one whose bare key is in the
\* vault is resolved to the bare key; else it is reported missing and has no
\* entry in resolved. The env name is the alias when given, else the key.
C10_KeyResolution ==
    ex.spawned =>
        \A keySpec \in Range(ex.keys) :
            IF ex.projectName # <<>>
               /\ ScopedName(ex.projectName, KeyOfSpec(keySpec)) \in VaultNames
            THEN ResolvedAs(keySpec, ScopedName(ex.projectName, KeyOfSpec(keySpec)))
            ELSE IF KeyOfSpec(keySpec) \in VaultNames
                 THEN ResolvedAs(keySpec, KeyOfSpec(keySpec))
                 ELSE ReportedMissing(keySpec)

C10_Witness ==
    /\ ex.spawned
    /\ ex.projectName = ProjMyApp
    /\ {KeyA, NameMyAppA, KeyB} \subseteq VaultNames
    /\ ex.resolved = <<[vaultKey |-> NameMyAppA, envName |-> KeyA],
                       [vaultKey |-> KeyB, envName |-> AliasX]>>

\* ------------------------------------------------------ claims: masking

Masking == ex.path = "secrets" /\ ~ex.noMask

\* the non-empty secret values of the run
ResolvedValues == {e.value : e \in Range(ex.secrets)} \ {<<>>}

\* C8 as stated: with masking on, no forwarded chunk contains any non-empty
\* resolved secret value.
C8_AsStated ==
    Masking =>
        \A f \in Range(ex.forwarded) : \A s \in ResolvedValues : ~Contains(f.text, s)

\* C8, amended: with masking on, no forwarded chunk contains a non-empty
\* resolved secret value that shares no character with the redaction token
\* [REDACTED], whatever the other secrets and their order.
C8_MaskedUnlessTokenChars ==
    Masking =>
        \A f \in Range(ex.forwarded) : \A s \in ResolvedValues :
            ~SharesChar(s, REDACTED) => ~Contains(f.text, s)

\* the chunk "aab" under the secrets "ab" and "b"
C8_Witness ==
    /\ Masking
    /\ ex.secrets = <<[name |-> KeyA, value |-> <<"a", "b">>],
                      [name |-> AliasX, value |-> <<"b">>]>>
    /\ ex.forwarded # <<>>
    /\ ex.forwarded[1].text = <<"a">> \o REDACTED

\* ------------------------------------------- claims: rv-exec, failures

\* rv-exec got past its argument checks
ArgsAccepted == ex.pc # "idle" /\ ex.keys # <<>>

\* a passphrase was inherited, or the master key file holds one
AuthSucceeds ==
    \/ ex.inheritedAuth
    \/ masterKeyFile = [exists |-> TRUE, content |-> <<"m", "k", "\n">>]

\* the key spec resolves neither to its scoped name nor to its bare key
SpecMissing(keySpec) ==
    /\ ~(ex.projectName # <<>>
         /\ ScopedName(ex.projectName, KeyOfSpec(keySpec)) \in VaultNames)
    /\ KeyOfSpec(keySpec) \notin VaultNames

ExpectedMissing == {EnvNameOfSpec(keySpec) : keySpec \in {k \in Range(ex.keys) : SpecMissing(k)}}

MissingReported ==
    /\ Range(ex.missing) = ExpectedMissing
    /\ ExpectedMissing # {}
          => {"missing secrets (skipped)", "Fix with: rv import .env  or  rv set KEY_NAME"}
                \subseteq ex.stderr

\* every record a key resolved to is intact and sealed under the key of the
\* passphrase in use
ResolvedDecrypt ==
    \A r \in Range(ex.resolved) : \A e \in vault.entries :
        e.name = r.vaultKey => (e.intact /\ e.key = [derivedFrom |-> ex.password])

C12_AsStated ==
    (ex.pc = "exited" /\ ex.spawned)
    => /\ (ex.child = "ended" /\ ex.childCode # NullCode) => ex.exitCode = ex.childCode
       /\ ex.child = "failed" => (ex.exitCode = 2 /\ (ex.hasDotenv => ~dotenvFile.exists))

QuotedWord(rewritten) ==
    LET mid == <<" ", "-", "-", " ", "b", "a", "s", "h", " ", "-", "c", " ">>
        i == CHOOSE k \in 1..Len(rewritten) :
                 /\ LitAt(rewritten, mid, k)
                 /\ \A j \in 1..(k - 1) : ~LitAt(rewritten, mid, j)
    IN  SubSeq(rewritten, i + Len(mid), Len(rewritten))

\* w is one single-quoted word in which every single quote of c is written
\* '\'' and every other character of c is itself
RECURSIVE QuotedBody(_, _)
QuotedBody(body, c) ==
    IF c = <<>> THEN body = <<>>
    ELSE IF Head(c) = "'"
         THEN /\ Len(body) >= 4
              /\ SubSeq(body, 1, 4) = <<"'", "\\", "'", "'">>
              /\ QuotedBody(SubSeq(body, 5, Len(body)), Tail(c))
         ELSE /\ body # <<>>
              /\ Head(body) = Head(c)
              /\ QuotedBody(Tail(body), Tail(c))

SingleQuotedForm(w, c) ==
    /\ Len(w) >= 2
    /\ w[1] = "'"
    /\ w[Len(w)] = "'"
    /\ QuotedBody(SubSeq(w, 2, Len(w) - 1), c)

ExecPrefixed(command) ==
    StartsWith(Trim(command), <<"r", "v", "-", "e", "x", "e", "c", " ">>)

\* the hook's decision on the command it has just produced
DecidedAgain == processCommand(hook.result.command, hook.cwd, hook.procCwd)

\* C15 as stated: a command that starts with "rv-exec " gets Passthrough.
C15_AsStated == (Decided /\ ExecPrefixed(hook.command)) => hook.result = Passthrough

\* C15, amended: a command that starts with "rv-exec " is never rewritten: it
\* passes through unchanged unless it matches a hard-block pattern, and then
\* it is blocked with the exposure reason. The hook applied to a command it
\* has rewritten never rewrites it again.
C15_NeverRewrapped ==
    Decided =>
        /\ ExecPrefixed(hook.command)
              => hook.result = IF MatchesBlocked(Trim(hook.command))
                               THEN Block(ReasonExposes) ELSE Passthrough
        /\ IsRewrite(hook.result)
              => /\ ~IsRewrite(DecidedAgain)
                 /\ ~MatchesBlocked(hook.result.command) => DecidedAgain = Passthrough

\* rv-exec A -- ls in an approved project that declares secrets
C15_Witness ==
    /\ Decided
    /\ hook.command = CmdExecLs
    /\ hook.cwd = "/p"
    /\ manifests["/p"] = MfA
    /\ InStore("/p")
    /\ hook.result = Passthrough

\* ------------------------------------------------ claims: key-spec list

\* the words between rv-exec and -- of a rewritten command
KeySpecList(rewritten) ==
    LET words == ShellWords(rewritten).words
        sep == CHOOSE k \in 1..Len(words) :
                   words[k] = Sep /\ \A j \in 1..(k - 1) : words[j] # Sep
    IN  SubSeq(words, 2, sep - 1)

\* the declared secrets of the sample manifests, written out
DeclaredKeySpecs(manifest) ==
    CASE manifest = MfA -> <<<<"A">>>>
      [] manifest = MfAB -> <<<<"A">>, <<"B", "=", "X">>>>

OneRecordPerName ==
    \A e1 \in vault.entries : \A e2 \in vault.entries : e1.name = e2.name => e1 = e2

\* what the history of calls says getSecret(name) gives: the value of the
\* most recent setSecret(name) no removeSecret(name) followed, null otherwise
ExpectedGet(name) ==
    IF vh.latest[name].state = "set"
    THEN ReturnedValue(vh.latest[name].value)
    ELSE ReturnedNull

\* C17: on an unlocked vault getSecret(name) returns the value of the most
\* recent setSecret(name) that no removeSecret(name) followed and null
\* otherwise, the vault holds at most one record per name, and removeSecret
\* returns true exactly when a record of the name existed just before
C17_LastWriteWins ==
    /\ OneRecordPerName
    /\ (vh.call.op = "getSecret" /\ vh.hasKey) => vh.result = ExpectedGet(vh.call.name)
    /\ vh.call.op = "removeSecret" =>
          vh.result = ReturnedBool(\E e \in vh.before : e.name = vh.call.name)

\* A was set, set again to another value and read back, after B was set and
\* removed
C17_Witness ==
    /\ vh.call.op = "getSecret"
    /\ vh.call.name = KeyA
    /\ vh.hasKey
    /\ vh.result = ReturnedValue(ValPA)
    /\ vh.latest[KeyB].state = "removed"
    /\ \A e \in vault.entries : e.name = KeyA

\* the operations that read or write records
RecordOps == {"setSecret", "getSecret", "listSecrets", "removeSecret"}

\* C18 (as stated): every vault operation requires the vault to be unlocked:
\* called on a vault that was never unlocked, setSecret, getSecret,
\* listSecrets and removeSecret fail and leave the records unchanged
C18_AsStated ==
    (vh.open /\ ~vh.hasKey /\ vh.call.op \in RecordOps) =>
        /\ vh.result = Threw(VaultIsLocked)
        /\ vault.entries = vh.before

\* ------------------------------------------------ claims: the hook protocol

Silent == Written(<<>>, <<>>, 0)

\* the input is not a call of the Bash tool with a command: another tool, or
\* anything that is not the JSON object the host sends
NotABashCall(stdin) ==
    \/ stdin.kind # "object"
    \/ stdin.tool_name # JsonString(LitBash)
    \/ ~stdin.hasToolInput
    \/ stdin.command.type # "string"
    \/ stdin.command.text = <<>>

\* the outcome the protocol gives a decision
ProtocolOutcome(result) ==
    IF result.decision = "block" THEN Written(<<>>, <<result.reason>>, 2)
    ELSE IF result.hasUpdate
         THEN Written(<<[hookSpecificOutput |->
                           [hookEventName |-> "PreToolUse",
                            permissionDecision |-> "allow",
                            updatedInput |-> [command |-> result.command]]]>>, <<>>, 0)
         ELSE Silent

\* C19 (as stated): a block gives the reason on stderr, nothing on stdout and
\* exit status 2; a rewrite gives exactly one JSON object on stdout, with
\* hookEventName "PreToolUse", permissionDecision "allow" and
\* updatedInput.command, and exit status 0; passthrough, another tool than
\* Bash and malformed stdin give no output and exit status 0
C19_AsStated ==
    /\ hook.pc = "decided" => hook.out = ProtocolOutcome(hook.result)
    /\ (hook.pc # "idle" /\ NotABashCall(hook.stdin)) => hook.out = Silent

\* ------------------------------------------------------ claims: --all

\* the env names the manifest of the project rv-exec was started in declares
DeclaredEnvNames ==
    IF DeclaresSecrets(ExecRoot)
    THEN {EnvNameOfSpec(k) : k \in Range(DeclaredKeySpecs(manifests[ExecRoot]))}
    ELSE {}

\* the names rv-exec put into the environment of the command
InjectedNames == {e.name : e \in Range(ex.secrets)}

\* rv-exec was started without -- or without a key before it
UsageError == ex.argv \in {ArgvNoSep, ArgvNoKeys}

\* C20 (as stated): rv-exec --all -- cmd injects every key the manifest found
\* upward from the working directory declares, and no other key of the vault;
\* without keys and --all, or without --, rv-exec ends with a nonzero status
\* and runs no command
C20_AsStated ==
    /\ (ex.argv = ArgvAll /\ ex.spawned /\ DeclaredEnvNames \subseteq VaultNames)
          => InjectedNames = DeclaredEnvNames
    /\ (ex.pc # "idle" /\ UsageError)
          => (ex.pc = "exited" /\ ex.exitCode > 0 /\ ~ex.spawned)

\* ------------------------------------------------------ claims: rv init

InitRan == cli.pc = "done" /\ cli.cmd = "init"

C22_NormalizeIdempotent ==
    calc.pc = "done" =>
        /\ calc.again = calc.normalized
        /\ calc.scoped1 = calc.normalized \o <<"_", "_">> \o calc.key
        /\ calc.other = calc.normalized => calc.scoped2 = calc.scoped1

\* "-aB" and "ab" both normalize to AB
C22_Witness ==
    /\ calc.pc = "done"
    /\ calc.n1 = <<"-", "a", "B">>
    /\ calc.n2 = <<"a", "B">>
    /\ calc.normalized = <<"A", "B">>
    /\ calc.scoped2 = <<"A", "B", "_", "_", "A">>

\* ------------------------------------------------ claims: malformed manifest

\* the manifests that are not JSON or fail validation
MalformedManifests == {MfBadJson, MfBadAs}

MalformedAt(root) == root # Undefined /\ manifests[root] \in MalformedManifests

\* C23 (as stated): when the manifest found for the command's working
\* directory is not JSON or fails validation, the decision is a block with
\* the validation reason, whatever the command
C23_AsStated ==
    (Decided /\ MalformedAt(ProjectRoot)) => hook.result = Block(ReasonInvalidConfig)

\* C23, amended: when the manifest found for the command's working directory
\* is not JSON or fails validation, every command that no earlier rule
\* decides (not hard-blocked, not agent-restricted, not starting with
\* rv-exec, psst or rv) is blocked with the validation reason: it is neither
\* passed through nor decided by the manifest of a later candidate directory
C23_MalformedBlocks ==
    (Decided /\ MalformedAt(ProjectRoot) /\ Ordinary(hook.command))
    => hook.result = Block(ReasonInvalidConfig)

\* ls in /p, whose manifest fails validation, by a hook process running in /q,
\* an approved project with a valid manifest
C23_Witness ==
    /\ Decided
    /\ hook.command = CmdLs
    /\ hook.cwd = "/p"
    /\ hook.procCwd = "/q"
    /\ manifests["/p"] = MfBadAs
    /\ manifests["/q"] = MfA
    /\ InStore("/q")
    /\ hook.result = Block(ReasonInvalidConfig)

\* ------------------------------------------------ claims: the project option

\* the project name of the sample manifests: the project member, else the
\* name of the directory
ProjectNameAt(root) ==
    IF manifests[root] = MfAB THEN ProjMyApp
    ELSE IF root = "/p" THEN <<"p">> ELSE <<"q">>

\* C24 (as stated): the rewritten command of an approved project with
\* declared secrets reads rv-exec --project '<project name>' <key specs> --
\* bash -c '<escaped command>', the project name being the manifest's project
\* member, else the name of the project directory
C24_AsStated ==
    (Decided /\ IsRewrite(hook.result)) =>
        LET words == ShellWords(hook.result.command).words
        IN  /\ Len(words) >= 3
            /\ words[1] = <<"r", "v", "-", "e", "x", "e", "c">>
            /\ words[2] = OptProject
            /\ words[3] = ProjectNameAt(ProjectRoot)

\* ------------------------------------------------ claims: concurrent approvals

BothDone == writers.pc = "race" /\ \A i \in Writers : writers.procs[i].pc = "done"

\* the store with cwd approved or revoked
Applied(op, cwd, store) ==
    (store \ {cwd}) \cup (IF op = "approve" THEN {cwd} ELSE {})

\* the store after both operations, one after the other (on different roots
\* the order does not matter)
AfterBoth ==
    Applied(writers.procs[2].op, writers.procs[2].cwd,
            Applied(writers.procs[1].op, writers.procs[1].cwd, writers.base))

\* C25: when two processes have approved or revoked different project roots,
\* the file holds what the process that wrote last had loaded, with its own
\* change and nothing else; when one process ran after the other the file
\* holds both changes
C25_LastWriterWins ==
    (BothDone /\ writers.procs[1].cwd # writers.procs[2].cwd) =>
        /\ approvedFile.exists
        /\ approvedFile.store = writers.procs[writers.last].store
        /\ writers.procs[writers.last].cwd \in approvedFile.store
              <=> writers.procs[writers.last].op = "approve"
        /\ ~writers.overlap => approvedFile.store = AfterBoth

\* /p was approved; rv revoke in /p and rv approve in /q ran at the same
\* time, the approve wrote last, and /p is approved again
C25_Witness ==
    /\ BothDone
    /\ writers.base = {"/p"}
    /\ writers.procs[1].op = "revoke"
    /\ writers.procs[1].cwd = "/p"
    /\ writers.procs[2].op = "approve"
    /\ writers.procs[2].cwd = "/q"
    /\ writers.overlap
    /\ writers.last = 2
    /\ approvedFile.store = {"/p", "/q"}
    /\ approvedFile.store # AfterBoth

\* ------------------------------------------------ claims: end to end

\* rv-exec was started by the host for a command the agent proposed, in a
\* directory that belongs to a project
RunForAgent == hook.pc = "decided" /\ ex.spawned /\ ExecRoot # Undefined

\* the vault keys the manifest of that project declares
ToolCallDeclaredKeys ==
    IF DeclaresSecrets(ExecRoot)
    THEN {KeyOfSpec(k) : k \in Range(DeclaredKeySpecs(manifests[ExecRoot]))}
    ELSE {}

\* the vault keys whose values rv-exec put into the environment of the child
InjectedKeys ==
    IF ex.secrets = <<>> THEN {} ELSE {r.vaultKey : r \in Range(ex.resolved)}

\* C26 (as stated): no secret whose key the project's manifest does not
\* declare is put into the environment of a child started for a command the
\* agent proposed, also when the command starts with rv-exec and is passed
\* through by the hook
C26_AsStated == RunForAgent => InjectedKeys \subseteq ToolCallDeclaredKeys

\* ------------------------------------------------ claims: after the separator

\* the arguments before and after the first --
BeforeSep(argv) == SubSeq(argv, 1, IndexOf(argv, Sep) - 1)
AfterSep(argv) == SubSeq(argv, IndexOf(argv, Sep) + 1, Len(argv))

\* rv-exec got past its argument checks for an argv with a separator
SplitAccepted == ex.pc # "idle" /\ IndexOf(ex.argv, Sep) # 0 /\ ex.command # <<>>

\* C27 (as stated): the arguments after -- are the command of the child as
\* they are, and --no-mask, --project or --dotenv after -- do not switch
\* masking off, name the project or make a dotenv file
C27_AsStated ==
    SplitAccepted
    => /\ ex.command = AfterSep(ex.argv)
       /\ ex.noMask = (OptNoMask \in Range(BeforeSep(ex.argv)))
       /\ ex.hasDotenv = (OptDotenv \in Range(BeforeSep(ex.argv)))

\* ------------------------------------------------ claims: the end of the child

\* rv-exec ended in the 'exit' handler of a child whose output it reads
ExitedAfterPipedChild == ex.pc = "exited" /\ ex.child = "ended" /\ ex.stdio = "pipe"

\* C28 (as stated): with masking on, when rv-exec exits on the 'exit' event of
\* the child, no chunk the child wrote is still waiting for its 'data' event:
\* everything written was forwarded before the exit
C28_AsStated ==
    ExitedAfterPipedChild => (ex.pipe = <<>> /\ Len(ex.forwarded) = ex.written)

\* C29 (as stated): rv-exec ends with status 0 only if the child exited with
\* status 0; a child ended by a signal gives a nonzero status on the path
\* without secrets and on the path with secrets
C29_AsStated ==
    (ex.pc = "exited" /\ ex.child = "ended" /\ ex.exitCode = 0) => ex.childCode = 0

\* ------------------------------------------------ claims: approve, then a command

\* the user's last approval command in directory d was rv approve, and the
\* hook has decided a command of the agent whose working directory is d
ApprovedThenDecided(d) == lastOp[d] = "approve" /\ Decided /\ hook.cwd = d

\* C30 (as stated): after rv approve in directory d, a command of the agent
\* with working directory d is not blocked for lack of approval, also when d
\* is a subdirectory of the project root that holds the manifest
C30_AsStated ==
    \A d \in ApprovalPaths :
        ApprovedThenDecided(d) => hook.result # Block(ReasonNotApproved)

====
